---- MODULE Spec2Model ----
(***************************************************************************)
(* A model of stdx::retain_ptr (include/memory.h): the intrusive,          *)
(* traits-customisable reference-counted pointer, its two counter mixins   *)
(* (reference_count, atomic_reference_count) and the default dispatcher    *)
(* retain_traits.                                                          *)
(*                                                                         *)
(* One class hierarchy is modelled: a base class that embeds the counter   *)
(* mixin and a class derived from it (MyBase/MySub, BaseTS/DerivedTS of    *)
(* the tests).  The mixin is chosen once for the hierarchy (storage).      *)
(* Handles are program variables of static type retain_ptr<Base> or        *)
(* retain_ptr<Derived>; objects are heap cells with an embedded m_count.   *)
(***************************************************************************)
EXTENDS Integers, Sequences, FiniteSets, TLC

\* ---------------------------------------------------------------- bounds
NumHandles == 3
NumObjects == 2
NumThreads == 2
\* the widest integer type has MaxBits bits
MaxBits == 3

\* ------------------------------------------------------------- constants
NULL == 0

Handles == 1 .. NumHandles
Objects == 1 .. NumObjects
\* two slots beyond the program's variables hold the temporaries an
\* expression creates (retain_ptr(p, action), retain_ptr(std::move(other)))
Tmp1 == NumHandles + 1
Tmp2 == NumHandles + 2
Slots == 1 .. (NumHandles + 2)
\* the largest count the handles and the caller's raw pointers can add up
\* to: every handle, the pointer new returned and the pointer release()
\* returned (the caller keeps one released pointer per object at a time)
MaxCount == NumHandles + 2

\* static type of a handle variable: retain_ptr<Base> or retain_ptr<Derived>
HType(h) == IF h % 2 = 1 THEN "Base" ELSE "Derived"
\* dynamic type of a heap object: new Derived or new Base
DynType(o) == IF o % 2 = 1 THEN "Derived" ELSE "Base"
\* a pointer a handle of static type T can store (Derived* converts to Base*)
Compatible(T, p) == p = NULL \/ T = "Base" \/ DynType(p) = "Derived"

VARIABLES
  storage,    \* "plain" (reference_count) or "atomic" (atomic_reference_count)
  ostate,     \* per object: "unborn", "alive", "disposed" (by decrement),
              \*             "deleted" (by the caller's delete expression)
  count,      \* per object: m_count
  fresh,      \* per object: the reference created by new is still held
              \*             through a raw pointer (no handle adopted it yet)
  raw,        \* per object: references release() handed back to the caller
              \*             and not adopted again since (0 or 1)
  disposals,  \* per object: number of delete expressions applied to it
  m_ptr,      \* per slot: the stored pointer of the handle in it (NULL when
              \*           the handle is Empty, not constructed or destroyed)
  ub,         \* a dispatcher touched an object that was already disposed
  tpc,        \* per thread: position in its program
  tptr,       \* per thread: stored pointers of its handles p and lp
  tseen,      \* per thread: last value read by use_count() on an Owning handle
  tdel,       \* per thread: its decrement observed the 1 to 0 transition
  hist,       \* modification order of the shared object's m_count
  tview,      \* per thread: latest position of hist the thread has observed
  hb,         \* writes to the shared object: known[t] those that happen before
              \* thread t's next step, rel those released through m_count
  twin,       \* the same program run with the other counter mixin: its
              \* counts, object states and stored pointers
  rpc,        \* per thread of a racing program: the operation it is at and
              \* how far it is through it
  reg,        \* per thread of a racing program: the value it has read and
              \* not yet used
  rlog,       \* per object: what the racing program has done to it so far
  cc          \* a call of clamp_cast: its types, its argument and its result

\* the variables of the side-by-side and interleaved runs further below
extVars == <<twin, rpc, reg, rlog, cc>>
vars == <<storage, ostate, count, raw, disposals, m_ptr, fresh, ub,
          tpc, tptr, tseen, tdel, hist, tview, hb, extVars>>
threadVars == <<tpc, tptr, tseen, tdel, hist, tview, hb, extVars>>

\* ------------------------------------------------------- machine state
\* The part of the state a handler works on, threaded through its steps;
\* ev collects, in program order, the dispatcher calls and pointer stores.
Cur ==
  [count |-> count, ostate |-> ostate, disposals |-> disposals,
   m_ptr |-> m_ptr, ub |-> ub, ev |-> <<>>, st |-> storage]

Event(k, tr, o, h, pre, del) ==
  [k |-> k, tr |-> tr, o |-> o, h |-> h, pre |-> pre, del |-> del]

\* m_ptr = p
Store(s, h, p) ==
  [s EXCEPT !.m_ptr[h] = p,
            !.ev = Append(@, Event("store", "none", p, h, 0, FALSE))]

\* ------------------------------------------------------- retain_traits
\* variant: the increment adds 2
IncrementValue_ByTwo(st, c) == c + 2

\* variant: the increment is lost, the count stays as it was
IncrementValue_Lost(st, c) == c

\* ++m_count  /  m_count.fetch_add(1, relaxed): the new value of the count
IncrementValue(st, c) == c + 1

\* variant: the decrement that finds the count at 2 deletes as well
DecrementDisposes_Early(st, c) == c <= 2

\* variant: the atomic decrement compares the value fetch_sub returns with 0
DecrementDisposes_ComparesZero(st, c) ==
  IF st = "atomic" THEN c = 0 ELSE (c - 1) = 0

\* variant: the plain decrement tests the count before it lowers it
\* (m_count-- == 0)
DecrementDisposes_PlainTestsOldValue(st, c) ==
  IF st = "atomic" THEN c = 1 ELSE c = 0

\* --m_count == 0  /  m_count.fetch_sub(1, acq_rel) == 1: whether the
\* decrement that found the count at c deletes the object
DecrementDisposes(st, c) ==
  IF st = "atomic" THEN c = 1 ELSE (c - 1) = 0

\* variant: the mixin starts its counter at 0
InitialCount_Zero(st) == 0

\* reference_count / atomic_reference_count: m_count{ 1 }
InitialCount(st) == 1

\* traits_type::increment(p), called through the dispatcher of type tr
Increment(s, tr, p) ==
  [s EXCEPT !.count[p] = IncrementValue(s.st, @),
            !.ub = @ \/ s.ostate[p] # "alive",
            !.ev = Append(@, Event("inc", tr, p, NULL, s.count[p], FALSE))]

\* traits_type::decrement(p), called through the dispatcher of type tr
Decrement(s, tr, p) ==
  LET del == DecrementDisposes(s.st, s.count[p]) IN
  [s EXCEPT !.count[p] = @ - 1,
            !.ostate[p] = IF del THEN "disposed" ELSE @,
            !.disposals[p] = IF del THEN @ + 1 ELSE @,
            !.ub = @ \/ s.ostate[p] # "alive",
            !.ev = Append(@, Event("dec", tr, p, NULL, s.count[p], del))]

\* traits_type::use_count(p)
TraitsUseCount(s, p) == s.count[p]

\* ---------------------------------------------------------- retain_ptr
\* explicit operator bool
Bool(s, h) == s.m_ptr[h] # NULL

\* get()
Get(s, h) == s.m_ptr[h]

\* variant: use_count() counts the handles that store the object
UseCountOf_CountsHandles(s, h) ==
  IF Bool(s, h)
  THEN Cardinality({g \in DOMAIN s.m_ptr : s.m_ptr[g] = s.m_ptr[h]})
  ELSE 0

\* retain_ptr::use_count() for traits that define use_count
UseCountOf(s, h) == IF Bool(s, h) THEN TraitsUseCount(s, s.m_ptr[h]) ELSE 0

\* variant: use_count() tests the pointer before it looks at the traits
UseCountWith_NullFirst(has, s, h) ==
  IF ~Bool(s, h) THEN 0 ELSE IF has THEN TraitsUseCount(s, s.m_ptr[h]) ELSE -1

\* retain_ptr::use_count(): if constexpr (has_use_count_v) ... else -1, has
\* telling whether traits_type::use_count(pointer) is a valid expression
UseCountWith(has, s, h) == IF has THEN UseCountOf(s, h) ELSE -1

\* retain_ptr<T> h; and retain_ptr<T> h(nullptr): m_ptr{ nullptr }
CtorEmpty(s, h) == Store(s, h, NULL)

\* variant: the adopting constructor takes a reference of its own
CtorAdopt_Increments(s, h, p) ==
  IF p # NULL THEN Increment(Store(s, h, p), "Base", p) ELSE Store(s, h, p)

\* retain_ptr(pointer p, adopt_object_t)
CtorAdopt(s, h, p) == Store(s, h, p)

\* variant: the retaining constructor increments twice
CtorRetain_IncrementsTwice(s, h, T, p) ==
  LET s1 == CtorAdopt(s, h, p) IN
  IF Bool(s1, h) THEN Increment(Increment(s1, T, s1.m_ptr[h]), T, s1.m_ptr[h])
  ELSE s1

\* variant: the retaining constructor stores p without incrementing
CtorRetain_NoIncrement(s, h, T, p) == CtorAdopt(s, h, p)

\* retain_ptr(pointer p, retain_object_t), a handle of static type T
CtorRetain(s, h, T, p) ==
  LET s1 == CtorAdopt(s, h, p) IN
  IF Bool(s1, h) THEN Increment(s1, T, s1.m_ptr[h]) ELSE s1

\* variant: the copy constructor copies the pointer without incrementing
CtorCopy_NoIncrement(s, h, T, other) == Store(s, h, s.m_ptr[other])

\* retain_ptr(const retain_ptr& other)
CtorCopy(s, h, T, other) ==
  LET s1 == Store(s, h, s.m_ptr[other]) IN
  IF Bool(s1, h) THEN Increment(s1, T, s1.m_ptr[h]) ELSE s1

\* variant: release() gives the reference back before it clears the pointer
ReleaseOf_Decrements(s, h) ==
  Store(IF Bool(s, h) THEN Decrement(s, "Base", s.m_ptr[h]) ELSE s, h, NULL)

\* release(): clears the stored pointer; the caller reads the old value first
ReleaseOf(s, h) == Store(s, h, NULL)

\* the value release() returns: auto* ptr = this->get(), read before the store
ReleaseRet(s, h) == Get(s, h)

\* variant: the move constructor leaves the source's pointer in place
CtorMove_KeepsSource(s, h, other) == Store(s, h, s.m_ptr[other])

\* retain_ptr(retain_ptr&& other)
CtorMove(s, h, other) ==
  LET p == s.m_ptr[other] IN Store(ReleaseOf(s, other), h, p)

\* variant: the converting copy constructor does not increment
CtorConvCopy_NoIncrement(s, h, UT, other) == Store(s, h, s.m_ptr[other])

\* retain_ptr(const retain_ptr<U, UTraits>& other), UT the source's traits
CtorConvCopy(s, h, UT, other) ==
  LET s1 == Store(s, h, s.m_ptr[other]) IN
  IF Bool(s1, other) THEN Increment(s1, UT, s1.m_ptr[other]) ELSE s1

\* retain_ptr(retain_ptr<U, UTraits>&& other)
CtorConvMove(s, h, other) ==
  LET p == s.m_ptr[other] IN Store(ReleaseOf(s, other), h, p)

\* variant: the destructor calls decrement without testing the pointer
Dtor_NoNullTest(s, h, T) ==
  IF Bool(s, h) THEN Decrement(s, T, s.m_ptr[h])
  ELSE [s EXCEPT !.ev = Append(@, Event("dec", T, NULL, NULL, 0, FALSE))]

\* variant: the destructor drops the pointer without decrementing
Dtor_NoDecrement(s, h, T) == s

\* ~retain_ptr() of a handle of static type T
Dtor(s, h, T) ==
  IF Bool(s, h) THEN Decrement(s, T, s.m_ptr[h]) ELSE s

\* the storage of a destroyed temporary is gone: its slot reads null again
Vanish(s, h) == [s EXCEPT !.m_ptr[h] = NULL]

\* variant: swap overwrites this handle's pointer with the other's
SwapOf_Overwrites(s, h, other) == Store(s, h, s.m_ptr[other])

\* swap(m_ptr, other.m_ptr)
SwapOf(s, h, other) ==
  LET a == s.m_ptr[h]
      b == s.m_ptr[other]
  IN Store(Store(s, h, b), other, a)

\* variant: copy assignment decrements the old target before it increments
AssignCopy_DecrementFirst(s, h, T, other) ==
  IF other # h
  THEN LET s1 == IF Bool(s, h) THEN Decrement(s, T, s.m_ptr[h]) ELSE s
           s2 == IF Bool(s1, other) THEN Increment(s1, T, s1.m_ptr[other])
                 ELSE s1
       IN Store(s2, h, s2.m_ptr[other])
  ELSE s

\* variant: copy assignment without the check for self-assignment
AssignCopy_NoSelfCheck(s, h, T, other) ==
  LET s1 == IF Bool(s, other) THEN Increment(s, T, s.m_ptr[other]) ELSE s
      s2 == IF Bool(s1, h) THEN Decrement(s1, T, s1.m_ptr[h]) ELSE s1
  IN Store(s2, h, s2.m_ptr[other])

\* operator=(const retain_ptr& other)
AssignCopy(s, h, T, other) ==
  IF other # h
  THEN LET s1 == IF Bool(s, other) THEN Increment(s, T, s.m_ptr[other]) ELSE s
           s2 == IF Bool(s1, h) THEN Decrement(s1, T, s1.m_ptr[h]) ELSE s1
       IN Store(s2, h, s2.m_ptr[other])
  ELSE s

\* operator=(const retain_ptr<U, UTraits>& other)
AssignConvCopy(s, h, T, other) ==
  LET s1 == IF Bool(s, other) THEN Increment(s, T, s.m_ptr[other]) ELSE s
      s2 == IF Bool(s1, h) THEN Decrement(s1, T, s1.m_ptr[h]) ELSE s1
  IN Store(s2, h, s2.m_ptr[other])

\* variant: move assignment overwrites the old target without a decrement
AssignMove_NoDecrement(s, h, T, other, tmp) ==
  IF other # h
  THEN LET p == s.m_ptr[other] IN Store(ReleaseOf(s, other), h, p)
  ELSE s

\* variant: move assignment does nothing when both handles store one pointer
AssignMove_SkipsEqualTargets(s, h, T, other, tmp) ==
  IF other # h /\ s.m_ptr[other] # s.m_ptr[h]
  THEN LET s1 == CtorMove(s, tmp, other)
           s2 == SwapOf(s1, tmp, h)
       IN Vanish(Dtor(s2, tmp, T), tmp)
  ELSE s

\* operator=(retain_ptr&& other): retain_ptr(std::move(other)).swap(*this),
\* the temporary built in slot tmp and destroyed at the end of the statement
AssignMove(s, h, T, other, tmp) ==
  IF other # h
  THEN LET s1 == CtorMove(s, tmp, other)
           s2 == SwapOf(s1, tmp, h)
       IN Vanish(Dtor(s2, tmp, T), tmp)
  ELSE s

\* variant: converting move assignment leaves the source's pointer in place
AssignConvMove_KeepsSource(s, h, T, other) ==
  LET s1 == IF Bool(s, h) THEN Decrement(s, T, s.m_ptr[h]) ELSE s
  IN Store(s1, h, s1.m_ptr[other])

\* operator=(retain_ptr<U, UTraits>&& other)
AssignConvMove(s, h, T, other) ==
  LET s1 == IF Bool(s, h) THEN Decrement(s, T, s.m_ptr[h]) ELSE s
      p == s1.m_ptr[other]
  IN Store(ReleaseOf(s1, other), h, p)

\* traits_type::default_action of retain_traits
DefaultAction == "adopt"

\* variant: reset stores p, then decrements the old target, then increments p
ResetOf_StoresFirst(s, h, T, p, action) ==
  LET old == s.m_ptr[h]
      s1 == Store(s, h, p)
      s2 == IF old # NULL THEN Decrement(s1, T, old) ELSE s1
  IN IF action = "retain" /\ p # NULL THEN Increment(s2, T, p) ELSE s2

\* variant: reset(p, retain_object) builds its temporary without incrementing
ResetOf_NeverRetains(s, h, T, p, action) ==
  LET s1 == CtorAdopt(s, Tmp1, p)
      s2 == AssignMove(s1, h, T, Tmp1, Tmp2)
  IN Vanish(Dtor(s2, Tmp1, T), Tmp1)

\* variant: reset overwrites the stored pointer
ResetOf_Overwrites(s, h, T, p, action) == Store(s, h, p)

\* reset(p, adopt_object) / reset(p, retain_object):
\* *this = retain_ptr(p, action), the argument a temporary in Tmp1
ResetOf(s, h, T, p, action) ==
  LET s1 == IF action = "retain" THEN CtorRetain(s, Tmp1, T, p)
                                 ELSE CtorAdopt(s, Tmp1, p)
      s2 == AssignMove(s1, h, T, Tmp1, Tmp2)
  IN Vanish(Dtor(s2, Tmp1, T), Tmp1)

\* what a traits type may declare as default_action: one of the two
\* sentinel types, or nothing
Declared == {"adopt", "retain", "none"}

\* variant: traits without a default_action retain
DetectedOrAdopt_Retains(decl) == IF decl = "adopt" THEN "adopt" ELSE "retain"

\* detected_or_t<adopt_object_t, detail::has_default_action, traits_type>
DetectedOrAdopt(decl) == IF decl = "none" THEN "adopt" ELSE decl

\* explicit retain_ptr(pointer p): retain_ptr(p, default_action()), for
\* traits whose default_action is action (adopt when they declare none)
CtorBareAs(action, s, h, T, p) ==
  IF action = "retain" THEN CtorRetain(s, h, T, p)
  ELSE CtorAdopt(s, h, p)

\* explicit retain_ptr(pointer p) with retain_traits
CtorBare(s, h, T, p) == CtorBareAs(DefaultAction, s, h, T, p)

\* variant: the dynamic_cast does not check the dynamic type
CastPtr_Unchecked(kind, T, p) == p

\* static_cast / const_cast / reinterpret_cast / dynamic_cast to the pointer
\* type of retain_ptr<T>: only a dynamic_cast checks the dynamic type
CastPtr(kind, T, p) ==
  IF kind = "dynamic" /\ ~Compatible(T, p) THEN NULL ELSE p

\* variant: the cast of an lvalue adopts the pointer instead of retaining it
CastCopyOf_Adopts(s, kind, h, T, other) ==
  CtorAdopt(s, h, CastPtr(kind, T, s.m_ptr[other]))

\* X_pointer_cast<T>(const retain_ptr<U, UTraits>& other), result in slot h
CastCopyOf(s, kind, h, T, other) ==
  LET ptr == CastPtr(kind, T, s.m_ptr[other]) IN
  IF kind = "dynamic" /\ ptr = NULL THEN CtorEmpty(s, h)
  ELSE CtorRetain(s, h, T, ptr)

\* X_pointer_cast<T>(retain_ptr<U, UTraits>&& other), result in slot h:
\* other.release() is evaluated first, then the cast of what it returned
CastMoveAs(action, s, kind, h, T, other) ==
  LET p == s.m_ptr[other]
      s1 == ReleaseOf(s, other)
      ptr == CastPtr(kind, T, p)
  IN IF kind = "dynamic" /\ ptr = NULL THEN CtorEmpty(s1, h)
     ELSE CtorBareAs(action, s1, h, T, ptr)

\* reset(pointer p = pointer{}): *this = retain_ptr(p, default_action()),
\* for traits whose default_action is action
ResetBareAs(action, s, h, T, p) ==
  LET s1 == CtorBareAs(action, s, Tmp1, T, p)
      s2 == AssignMove(s1, h, T, Tmp1, Tmp2)
  IN Vanish(Dtor(s2, Tmp1, T), Tmp1)

\* X_pointer_cast<T>(retain_ptr<U, UTraits>&& other) with retain_traits
CastMoveOf(s, kind, h, T, other) ==
  CastMoveAs(DefaultAction, s, kind, h, T, other)

\* the addresses the pointer values may have: std::less is a strict total
\* order on them, which one is up to the implementation.  A comparison
\* involves two pointers: the ascending and the descending assignment put
\* every two of them in both orders
Addresses ==
  {[p \in Objects \cup {NULL} |-> p],
   [p \in Objects \cup {NULL} |-> NumObjects - p]}

\* variant: the comparison looks at the pointed-to counters
Compare_ByCount(op, a, s, x, y) ==
  LET cx == UseCountOf(s, x)
      cy == UseCountOf(s, y)
  IN CASE op = "==" -> cx = cy
       [] op = "!=" -> cx # cy
       [] op = "<" -> cx < cy
       [] op = "<=" -> ~(cy < cx)
       [] op = ">" -> cy < cx
       [] op = ">=" -> ~(cx < cy)

\* operator==, !=, <, <=, >, >= (const retain_ptr<T, Traits>& x,
\* const retain_ptr<U, UTraits>& y), under the address assignment a
Compare(op, a, s, x, y) ==
  LET lt(u, v) == a[Get(s, u)] < a[Get(s, v)]
  IN CASE op = "==" -> Get(s, x) = Get(s, y)
       [] op = "!=" -> Get(s, x) # Get(s, y)
       [] op = "<" -> lt(x, y)
       [] op = "<=" -> ~lt(y, x)
       [] op = ">" -> lt(y, x)
       [] op = ">=" -> ~lt(x, y)

\* operator==, !=, <, <=, >, >= (const retain_ptr<T, Traits>& x, nullptr_t)
CompareNull(op, a, s, x) ==
  LET ltn == a[Get(s, x)] < a[NULL]
      nlt == a[NULL] < a[Get(s, x)]
  IN CASE op = "==" -> ~Bool(s, x)
       [] op = "!=" -> Bool(s, x)
       [] op = "<" -> ltn
       [] op = "<=" -> ~nlt
       [] op = ">" -> nlt
       [] op = ">=" -> ~ltn

\* the functions std::hash<pointer> may be: any function of the pointer
\* value (two hash values are enough to tell equal from different)
HashFns == [Objects \cup {NULL} -> BOOLEAN]

\* variant: the hash mixes in the pointed-to counter
HashOf_MixesCount(f, s, h) == f[Get(s, h)] /\ UseCountOf(s, h) = 1

\* std::hash<retain_ptr<T, Traits>>: std::hash<pointer>{}(key.get())
HashOf(f, s, h) == f[Get(s, h)]

\* ------------------------------------------------------------- helpers
\* the handles whose stored pointer refers to o
Owners(o) == {h \in Handles : m_ptr[h] = o}

\* a pointer value the caller can hand to a handle of static type T:
\* null or a live object of a compatible dynamic type
ValidPtr(T, p) ==
  p = NULL \/ (p \in Objects /\ ostate[p] = "alive" /\ Compatible(T, p))

Pointers == Objects \cup {NULL}

\* the handler's result becomes the new state (count capped by MaxCount)
Commit(s) ==
  /\ \A o \in Objects : s.count[o] <= MaxCount
  /\ count' = s.count
  /\ ostate' = s.ostate
  /\ disposals' = s.disposals
  /\ m_ptr' = s.m_ptr
  /\ ub' = s.ub

\* the caller holds a reference to p that it can hand to adopt_object
Adoptable(p) == p # NULL => (fresh[p] \/ raw[p] >= 1)

\* the caller hands one of its references to a handle
GiveUp(p) ==
  /\ fresh' = IF p # NULL /\ fresh[p] THEN [fresh EXCEPT ![p] = FALSE] ELSE fresh
  /\ raw' = IF p # NULL /\ ~fresh[p] THEN [raw EXCEPT ![p] = @ - 1] ELSE raw

\* the references to o held outside retain_ptr handles
Outside(o) == raw[o] + (IF fresh[o] THEN 1 ELSE 0)

\* new T takes the next free cell of the heap
NextFree(o) ==
  /\ ostate[o] = "unborn"
  /\ \A q \in Objects : q < o => ostate[q] # "unborn"

\* ------------------------------------------------------------- actions
\* Each operation has its guard (XPre), the handler applied to the current
\* state (XRes) and the action that commits the handler's result.

\* new T: the mixin's constructor sets m_count{1}; the caller holds the
\* only reference, through a raw pointer
New(o) ==
  /\ NextFree(o)
  /\ ostate' = [ostate EXCEPT ![o] = "alive"]
  /\ count' = [count EXCEPT ![o] = InitialCount(storage)]
  /\ fresh' = [fresh EXCEPT ![o] = TRUE]
  /\ UNCHANGED <<storage, raw, disposals, m_ptr, ub, threadVars>>

\* a slot in which a handle can be constructed: it holds none, or an Empty
\* one, whose destructor changes nothing
Free(h) == m_ptr[h] = NULL

ConstructEmptyPre(h) == Free(h)
ConstructEmptyRes(h) == CtorEmpty(Cur, h)
ConstructEmpty(h) ==
  /\ ConstructEmptyPre(h)
  /\ Commit(ConstructEmptyRes(h))
  /\ UNCHANGED <<storage, fresh, raw, threadVars>>

\* retain_ptr<T> h(p, adopt_object): the caller gives up a reference it holds
ConstructAdoptPre(h, p) == Free(h) /\ ValidPtr(HType(h), p) /\ Adoptable(p)
ConstructAdoptRes(h, p) == CtorAdopt(Cur, h, p)
ConstructAdopt(h, p) ==
  /\ ConstructAdoptPre(h, p)
  /\ GiveUp(p)
  /\ Commit(ConstructAdoptRes(h, p))
  /\ UNCHANGED <<storage, threadVars>>

\* retain_ptr<T> h(p, retain_object)
ConstructRetainPre(h, p) == Free(h) /\ ValidPtr(HType(h), p)
ConstructRetainRes(h, p) == CtorRetain(Cur, h, HType(h), p)
ConstructRetain(h, p) ==
  /\ ConstructRetainPre(h, p)
  /\ Commit(ConstructRetainRes(h, p))
  /\ UNCHANGED <<storage, fresh, raw, threadVars>>

\* auto h = make_retain<T>(): new T adopted at once
MakeRetainPre(h, o) == Free(h) /\ NextFree(o) /\ Compatible(HType(h), o)
MakeRetainRes(h, o) ==
  CtorAdopt([Cur EXCEPT !.ostate[o] = "alive",
                        !.count[o] = InitialCount(storage)], h, o)
MakeRetain(h, o) ==
  /\ MakeRetainPre(h, o)
  /\ Commit(MakeRetainRes(h, o))
  /\ UNCHANGED <<storage, fresh, raw, threadVars>>

\* retain_ptr<T> h(other), other of the same type
CopyConstructPre(h, other) ==
  Free(h) /\ other # h /\ HType(h) = HType(other)
CopyConstructRes(h, other) == CtorCopy(Cur, h, HType(h), other)
CopyConstruct(h, other) ==
  /\ CopyConstructPre(h, other)
  /\ Commit(CopyConstructRes(h, other))
  /\ UNCHANGED <<storage, fresh, raw, threadVars>>

\* retain_ptr<T> h(std::move(other)), other of the same type
MoveConstructPre(h, other) ==
  Free(h) /\ other # h /\ HType(h) = HType(other)
MoveConstructRes(h, other) == CtorMove(Cur, h, other)
MoveConstruct(h, other) ==
  /\ MoveConstructPre(h, other)
  /\ Commit(MoveConstructRes(h, other))
  /\ UNCHANGED <<storage, fresh, raw, threadVars>>

\* retain_ptr<Base> h(other), other a retain_ptr<Derived>
ConvCopyConstructPre(h, other) ==
  Free(h) /\ other # h /\ HType(h) = "Base" /\ HType(other) = "Derived"
ConvCopyConstructRes(h, other) == CtorConvCopy(Cur, h, HType(other), other)
ConvCopyConstruct(h, other) ==
  /\ ConvCopyConstructPre(h, other)
  /\ Commit(ConvCopyConstructRes(h, other))
  /\ UNCHANGED <<storage, fresh, raw, threadVars>>

\* retain_ptr<Base> h(std::move(other)), other a retain_ptr<Derived>
ConvMoveConstructPre(h, other) ==
  Free(h) /\ other # h /\ HType(h) = "Base" /\ HType(other) = "Derived"
ConvMoveConstructRes(h, other) == CtorConvMove(Cur, h, other)
ConvMoveConstruct(h, other) ==
  /\ ConvMoveConstructPre(h, other)
  /\ Commit(ConvMoveConstructRes(h, other))
  /\ UNCHANGED <<storage, fresh, raw, threadVars>>

\* h = other, same type (h = h itself included)
CopyAssignPre(h, other) == HType(h) = HType(other)
CopyAssignRes(h, other) == AssignCopy(Cur, h, HType(h), other)
CopyAssign(h, other) ==
  /\ CopyAssignPre(h, other)
  /\ Commit(CopyAssignRes(h, other))
  /\ UNCHANGED <<storage, fresh, raw, threadVars>>

\* h = other, h a retain_ptr<Base>, other a retain_ptr<Derived>
ConvCopyAssignPre(h, other) ==
  HType(h) = "Base" /\ HType(other) = "Derived"
ConvCopyAssignRes(h, other) == AssignConvCopy(Cur, h, HType(h), other)
ConvCopyAssign(h, other) ==
  /\ ConvCopyAssignPre(h, other)
  /\ Commit(ConvCopyAssignRes(h, other))
  /\ UNCHANGED <<storage, fresh, raw, threadVars>>

\* h = std::move(other), same type (h = std::move(h) included)
MoveAssignPre(h, other) == HType(h) = HType(other)
MoveAssignRes(h, other) == AssignMove(Cur, h, HType(h), other, Tmp1)
MoveAssign(h, other) ==
  /\ MoveAssignPre(h, other)
  /\ Commit(MoveAssignRes(h, other))
  /\ UNCHANGED <<storage, fresh, raw, threadVars>>

\* h = std::move(other), h a retain_ptr<Base>, other a retain_ptr<Derived>
ConvMoveAssignPre(h, other) ==
  HType(h) = "Base" /\ HType(other) = "Derived"
ConvMoveAssignRes(h, other) == AssignConvMove(Cur, h, HType(h), other)
ConvMoveAssign(h, other) ==
  /\ ConvMoveAssignPre(h, other)
  /\ Commit(ConvMoveAssignRes(h, other))
  /\ UNCHANGED <<storage, fresh, raw, threadVars>>

\* h.reset(p, adopt_object): the caller gives up a reference it holds
ResetAdoptPre(h, p) == ValidPtr(HType(h), p) /\ Adoptable(p)
ResetAdoptRes(h, p) == ResetOf(Cur, h, HType(h), p, "adopt")
ResetAdopt(h, p) ==
  /\ ResetAdoptPre(h, p)
  /\ GiveUp(p)
  /\ Commit(ResetAdoptRes(h, p))
  /\ UNCHANGED <<storage, threadVars>>

\* h.reset(p, retain_object)
ResetRetainPre(h, p) == ValidPtr(HType(h), p)
ResetRetainRes(h, p) == ResetOf(Cur, h, HType(h), p, "retain")
ResetRetain(h, p) ==
  /\ ResetRetainPre(h, p)
  /\ Commit(ResetRetainRes(h, p))
  /\ UNCHANGED <<storage, fresh, raw, threadVars>>

\* h.reset(): reset(pointer{}) through default_action
ResetRes(h) == ResetOf(Cur, h, HType(h), NULL, DefaultAction)
Reset(h) ==
  /\ Commit(ResetRes(h))
  /\ UNCHANGED <<storage, fresh, raw, threadVars>>

\* h = nullptr: this->reset()
AssignNullRes(h) == ResetRes(h)
AssignNull(h) ==
  /\ Commit(AssignNullRes(h))
  /\ UNCHANGED <<storage, fresh, raw, threadVars>>

\* p = h.release(): the caller now holds the reference through a raw pointer
\* (it keeps one released pointer per object at a time)
ReleasePre(h) == m_ptr[h] # NULL => raw[m_ptr[h]] = 0
ReleaseRes(h) == ReleaseOf(Cur, h)
Release(h) ==
  /\ ReleasePre(h)
  /\ raw' = IF m_ptr[h] # NULL THEN [raw EXCEPT ![m_ptr[h]] = @ + 1] ELSE raw
  /\ Commit(ReleaseRes(h))
  /\ UNCHANGED <<storage, fresh, threadVars>>

\* h.swap(other) / swap(h, other)
SwapPre(h, other) == HType(h) = HType(other)
SwapRes(h, other) == SwapOf(Cur, h, other)
Swap(h, other) ==
  /\ SwapPre(h, other)
  /\ Commit(SwapRes(h, other))
  /\ UNCHANGED <<storage, fresh, raw, threadVars>>

\* h goes out of scope
DestroyRes(h) == Vanish(Dtor(Cur, h, HType(h)), h)
Destroy(h) ==
  /\ Commit(DestroyRes(h))
  /\ UNCHANGED <<storage, fresh, raw, threadVars>>

\* the casts the program may apply: a static, const or reinterpret cast to a
\* type the object does not have is undefined, and const_cast keeps the type
CastKinds == {"static", "const", "dynamic", "reinterpret"}
CastValid(kind, h, other) ==
  /\ kind # "dynamic" => Compatible(HType(h), m_ptr[other])
  /\ kind = "const" => HType(h) = HType(other)

\* auto h = X_pointer_cast<T>(other)
CastCopyPre(kind, h, other) ==
  Free(h) /\ other # h /\ CastValid(kind, h, other)
CastCopyRes(kind, h, other) == CastCopyOf(Cur, kind, h, HType(h), other)
\* the pointer other.release() returned inside the cast is dropped when the
\* dynamic_cast of it fails: a released reference nobody holds
Dropped(kind, h, other) ==
  m_ptr[other] # NULL /\ CastPtr(kind, HType(h), m_ptr[other]) = NULL

\* auto h = X_pointer_cast<T>(std::move(other))
CastMovePre(kind, h, other) ==
  /\ Free(h) /\ other # h /\ CastValid(kind, h, other)
  /\ Dropped(kind, h, other) => raw[m_ptr[other]] = 0
CastMoveRes(kind, h, other) == CastMoveOf(Cur, kind, h, HType(h), other)
\* the dropped pointer adds to the released references nobody adopted
Drop(kind, h, other) ==
  raw' = IF Dropped(kind, h, other)
         THEN [raw EXCEPT ![m_ptr[other]] = @ + 1] ELSE raw

StaticCastCopy(h, other) ==
  /\ CastCopyPre("static", h, other)
  /\ Commit(CastCopyRes("static", h, other))
  /\ UNCHANGED <<storage, fresh, raw, threadVars>>

StaticCastMove(h, other) ==
  /\ CastMovePre("static", h, other)
  /\ Drop("static", h, other)
  /\ Commit(CastMoveRes("static", h, other))
  /\ UNCHANGED <<storage, fresh, threadVars>>

ConstCastCopy(h, other) ==
  /\ CastCopyPre("const", h, other)
  /\ Commit(CastCopyRes("const", h, other))
  /\ UNCHANGED <<storage, fresh, raw, threadVars>>

ConstCastMove(h, other) ==
  /\ CastMovePre("const", h, other)
  /\ Drop("const", h, other)
  /\ Commit(CastMoveRes("const", h, other))
  /\ UNCHANGED <<storage, fresh, threadVars>>

DynamicCastCopy(h, other) ==
  /\ CastCopyPre("dynamic", h, other)
  /\ Commit(CastCopyRes("dynamic", h, other))
  /\ UNCHANGED <<storage, fresh, raw, threadVars>>

DynamicCastMove(h, other) ==
  /\ CastMovePre("dynamic", h, other)
  /\ Drop("dynamic", h, other)
  /\ Commit(CastMoveRes("dynamic", h, other))
  /\ UNCHANGED <<storage, fresh, threadVars>>

ReinterpretCastCopy(h, other) ==
  /\ CastCopyPre("reinterpret", h, other)
  /\ Commit(CastCopyRes("reinterpret", h, other))
  /\ UNCHANGED <<storage, fresh, raw, threadVars>>

ReinterpretCastMove(h, other) ==
  /\ CastMovePre("reinterpret", h, other)
  /\ Drop("reinterpret", h, other)
  /\ Commit(CastMoveRes("reinterpret", h, other))
  /\ UNCHANGED <<storage, fresh, threadVars>>

\* delete p by the owner of the last reference, held through a raw pointer
ManualDelete(o) ==
  /\ ostate[o] = "alive"
  /\ Outside(o) = 1 /\ count[o] = 1
  /\ ostate' = [ostate EXCEPT ![o] = "deleted"]
  /\ disposals' = [disposals EXCEPT ![o] = @ + 1]
  /\ raw' = [raw EXCEPT ![o] = 0]
  /\ fresh' = [fresh EXCEPT ![o] = FALSE]
  /\ UNCHANGED <<storage, count, m_ptr, ub, threadVars>>

\* ---------------------------------------------------------------- calls
\* Every retain_ptr call the program can make in the current state, with
\* its operands (h: *this, src: the other handle, p: the pointer passed or
\* moved) and the handler's result s, whose s.ev lists what the call did.
Call(op, h, src, p, s) == [op |-> op, h |-> h, src |-> src, p |-> p, s |-> s]

HH == Handles \X Handles
HP == Handles \X Pointers

Ops ==
  {"ConstructEmpty", "ConstructAdopt", "ConstructRetain", "MakeRetain",
   "CopyConstruct", "MoveConstruct", "ConvCopyConstruct", "ConvMoveConstruct",
   "CopyAssign", "ConvCopyAssign", "MoveAssign", "ConvMoveAssign",
   "ResetAdopt", "ResetRetain", "Reset", "AssignNull", "Release", "Swap",
   "Destroy", "StaticCastCopy", "StaticCastMove", "ConstCastCopy",
   "ConstCastMove", "DynamicCastCopy", "DynamicCastMove",
   "ReinterpretCastCopy", "ReinterpretCastMove"}

\* the cast an operation name stands for
CastKindOf(op) ==
  IF op \in {"StaticCastCopy", "StaticCastMove"} THEN "static"
  ELSE IF op \in {"ConstCastCopy", "ConstCastMove"} THEN "const"
  ELSE IF op \in {"DynamicCastCopy", "DynamicCastMove"} THEN "dynamic"
  ELSE "reinterpret"

\* the calls of operation op enabled in the current state, with their results
CallsOf(op) ==
  CASE op = "ConstructEmpty" ->
      {Call("ConstructEmpty", h, 0, NULL, ConstructEmptyRes(h)) :
      h \in {y \in Handles : ConstructEmptyPre(y)}}
    [] op = "ConstructAdopt" ->
      {Call("ConstructAdopt", x[1], 0, x[2], ConstructAdoptRes(x[1], x[2])) :
      x \in {y \in HP : ConstructAdoptPre(y[1], y[2])}}
    [] op = "ConstructRetain" ->
      {Call("ConstructRetain", x[1], 0, x[2], ConstructRetainRes(x[1], x[2])) :
      x \in {y \in HP : ConstructRetainPre(y[1], y[2])}}
    [] op = "MakeRetain" ->
      {Call("MakeRetain", x[1], 0, x[2], MakeRetainRes(x[1], x[2])) :
      x \in {y \in Handles \X Objects : MakeRetainPre(y[1], y[2])}}
    [] op = "CopyConstruct" ->
      {Call("CopyConstruct", x[1], x[2], m_ptr[x[2]], CopyConstructRes(x[1], x[2])) :
      x \in {y \in HH : CopyConstructPre(y[1], y[2])}}
    [] op = "MoveConstruct" ->
      {Call("MoveConstruct", x[1], x[2], m_ptr[x[2]], MoveConstructRes(x[1], x[2])) :
      x \in {y \in HH : MoveConstructPre(y[1], y[2])}}
    [] op = "ConvCopyConstruct" ->
      {Call("ConvCopyConstruct", x[1], x[2], m_ptr[x[2]],
      ConvCopyConstructRes(x[1], x[2])) :
      x \in {y \in HH : ConvCopyConstructPre(y[1], y[2])}}
    [] op = "ConvMoveConstruct" ->
      {Call("ConvMoveConstruct", x[1], x[2], m_ptr[x[2]],
      ConvMoveConstructRes(x[1], x[2])) :
      x \in {y \in HH : ConvMoveConstructPre(y[1], y[2])}}
    [] op = "CopyAssign" ->
      {Call("CopyAssign", x[1], x[2], m_ptr[x[2]], CopyAssignRes(x[1], x[2])) :
      x \in {y \in HH : CopyAssignPre(y[1], y[2])}}
    [] op = "ConvCopyAssign" ->
      {Call("ConvCopyAssign", x[1], x[2], m_ptr[x[2]], ConvCopyAssignRes(x[1], x[2])) :
      x \in {y \in HH : ConvCopyAssignPre(y[1], y[2])}}
    [] op = "MoveAssign" ->
      {Call("MoveAssign", x[1], x[2], m_ptr[x[2]], MoveAssignRes(x[1], x[2])) :
      x \in {y \in HH : MoveAssignPre(y[1], y[2])}}
    [] op = "ConvMoveAssign" ->
      {Call("ConvMoveAssign", x[1], x[2], m_ptr[x[2]], ConvMoveAssignRes(x[1], x[2])) :
      x \in {y \in HH : ConvMoveAssignPre(y[1], y[2])}}
    [] op = "ResetAdopt" ->
      {Call("ResetAdopt", x[1], 0, x[2], ResetAdoptRes(x[1], x[2])) :
      x \in {y \in HP : ResetAdoptPre(y[1], y[2])}}
    [] op = "ResetRetain" ->
      {Call("ResetRetain", x[1], 0, x[2], ResetRetainRes(x[1], x[2])) :
      x \in {y \in HP : ResetRetainPre(y[1], y[2])}}
    [] op = "Reset" ->
      {Call("Reset", h, 0, NULL, ResetRes(h)) : h \in Handles}
    [] op = "AssignNull" ->
      {Call("AssignNull", h, 0, NULL, AssignNullRes(h)) :
      h \in Handles}
    [] op = "Release" ->
      {Call("Release", h, 0, m_ptr[h], ReleaseRes(h)) :
      h \in {y \in Handles : ReleasePre(y)}}
    [] op = "Swap" ->
      {Call("Swap", x[1], x[2], m_ptr[x[2]], SwapRes(x[1], x[2])) :
      x \in {y \in HH : SwapPre(y[1], y[2])}}
    [] op = "Destroy" ->
      {Call("Destroy", h, 0, m_ptr[h], DestroyRes(h)) :
      h \in Handles}
    [] op \in {"StaticCastCopy", "ConstCastCopy", "DynamicCastCopy",
               "ReinterpretCastCopy"} ->
      {Call(op, x[1], x[2], m_ptr[x[2]], CastCopyRes(CastKindOf(op), x[1], x[2])) :
      x \in {y \in HH : CastCopyPre(CastKindOf(op), y[1], y[2])}}
    [] op \in {"StaticCastMove", "ConstCastMove", "DynamicCastMove",
               "ReinterpretCastMove"} ->
      {Call(op, x[1], x[2], m_ptr[x[2]], CastMoveRes(CastKindOf(op), x[1], x[2])) :
      x \in {y \in HH : CastMovePre(CastKindOf(op), y[1], y[2])}}

\* every retain_ptr call enabled in the current state
Calls == UNION {CallsOf(op) : op \in Ops}

\* the dispatcher calls (increment, decrement) a handler's result lists
Dispatched(s) == {i \in 1 .. Len(s.ev) : s.ev[i].k \in {"inc", "dec"}}
IncsOn(s, o) == {i \in 1 .. Len(s.ev) : s.ev[i].k = "inc" /\ s.ev[i].o = o}
DecsOn(s, o) == {i \in 1 .. Len(s.ev) : s.ev[i].k = "dec" /\ s.ev[i].o = o}

\* ------------------------------------------------------- specification
Init ==
  /\ storage \in {"plain", "atomic"}
  /\ ostate = [o \in Objects |-> "unborn"]
  /\ count = [o \in Objects |-> 0]
  /\ raw = [o \in Objects |-> 0]
  /\ disposals = [o \in Objects |-> 0]
  /\ m_ptr = [h \in Slots |-> NULL]
  /\ fresh = [o \in Objects |-> FALSE]
  /\ ub = FALSE
  /\ tpc = <<>>
  /\ tptr = <<>>
  /\ tseen = <<>>
  /\ tdel = <<>>
  /\ hist = <<>>
  /\ tview = <<>>
  /\ hb = <<>>
  /\ twin = <<>>
  /\ rpc = <<>> /\ reg = <<>> /\ rlog = <<>> /\ cc = <<>>

Next ==
  \/ \E o \in Objects : New(o)
  \/ \E o \in Objects : ManualDelete(o)
  \/ \E h \in Handles : ConstructEmpty(h)
  \/ \E h \in Handles, p \in Pointers : ConstructAdopt(h, p)
  \/ \E h \in Handles, p \in Pointers : ConstructRetain(h, p)
  \/ \E h \in Handles, o \in Objects : MakeRetain(h, o)
  \/ \E h, other \in Handles : CopyConstruct(h, other)
  \/ \E h, other \in Handles : MoveConstruct(h, other)
  \/ \E h, other \in Handles : ConvCopyConstruct(h, other)
  \/ \E h, other \in Handles : ConvMoveConstruct(h, other)
  \/ \E h, other \in Handles : CopyAssign(h, other)
  \/ \E h, other \in Handles : ConvCopyAssign(h, other)
  \/ \E h, other \in Handles : MoveAssign(h, other)
  \/ \E h, other \in Handles : ConvMoveAssign(h, other)
  \/ \E h \in Handles, p \in Pointers : ResetAdopt(h, p)
  \/ \E h \in Handles, p \in Pointers : ResetRetain(h, p)
  \/ \E h \in Handles : Reset(h)
  \/ \E h \in Handles : AssignNull(h)
  \/ \E h \in Handles : Release(h)
  \/ \E h, other \in Handles : Swap(h, other)
  \/ \E h \in Handles : Destroy(h)
  \/ \E h, other \in Handles : StaticCastCopy(h, other)
  \/ \E h, other \in Handles : StaticCastMove(h, other)
  \/ \E h, other \in Handles : ConstCastCopy(h, other)
  \/ \E h, other \in Handles : ConstCastMove(h, other)
  \/ \E h, other \in Handles : DynamicCastCopy(h, other)
  \/ \E h, other \in Handles : DynamicCastMove(h, other)
  \/ \E h, other \in Handles : ReinterpretCastCopy(h, other)
  \/ \E h, other \in Handles : ReinterpretCastMove(h, other)

Spec == Init /\ [][Next]_vars

\* ------------------------------------------- traits whose increment throws
\* retain_ptr(pointer p, retain_object_t) is not noexcept and delegates to
\* retain_ptr(p, adopt_object).  With traits whose increment throws (before
\* it changes the count), the body exits via the exception after the
\* delegated constructor has completed, so the object counts as constructed
\* and its destructor is invoked during unwinding, on the stored pointer p.
CtorRetainThrows(s, h, T, p) ==
  LET s1 == CtorAdopt(s, h, p)
  IN IF Bool(s1, h) THEN Vanish(Dtor(s1, h, T), h) ELSE s1

\* try { retain_ptr<T> h(p, retain_object); } catch (...) {} with a non-null
\* p to which the caller holds a reference of its own (T* p = new T, or the
\* result of release()): the destructor's decrement uses that reference up,
\* and the caller does not touch p through it afterwards
ConstructRetainThrowsPre(h, p) ==
  ConstructRetainPre(h, p) /\ p # NULL /\ Outside(p) >= 1
ConstructRetainThrowsRes(h, p) == CtorRetainThrows(Cur, h, HType(h), p)
ConstructRetainThrows(h, p) ==
  /\ ConstructRetainThrowsPre(h, p)
  /\ GiveUp(p)
  /\ Commit(ConstructRetainThrowsRes(h, p))
  /\ UNCHANGED <<storage, threadVars>>

\* the throwing constructions enabled in the current state, with their results
ThrowingCalls ==
  {Call("ConstructRetainThrows", x[1], 0, x[2],
        ConstructRetainThrowsRes(x[1], x[2])) :
   x \in {y \in HP : ConstructRetainThrowsPre(y[1], y[2])}}

\* the program of Spec, with traits whose increment may throw in the
\* retaining constructor
NextThrowing ==
  \/ Next
  \/ \E h \in Handles, p \in Objects : ConstructRetainThrows(h, p)

SpecThrowing == Init /\ [][NextThrowing]_vars

\* ------------------------------------- TYPED_TEST over both counter mixins
\* The typed tests run one program once per mixin.  Here the two runs go
\* side by side: the program of Spec runs on the variables with the mixin
\* storage, and every step is repeated on twin with the other mixin.
OtherMixin(st) == IF st = "plain" THEN "atomic" ELSE "plain"

\* the handler of operation op applied to machine state s
Apply(op, s, h, src, p) ==
  CASE op = "ConstructEmpty" -> CtorEmpty(s, h)
    [] op = "ConstructAdopt" -> CtorAdopt(s, h, p)
    [] op = "ConstructRetain" -> CtorRetain(s, h, HType(h), p)
    [] op = "MakeRetain" ->
         CtorAdopt([s EXCEPT !.ostate[p] = "alive",
                             !.count[p] = InitialCount(s.st)], h, p)
    [] op = "CopyConstruct" -> CtorCopy(s, h, HType(h), src)
    [] op = "MoveConstruct" -> CtorMove(s, h, src)
    [] op = "ConvCopyConstruct" -> CtorConvCopy(s, h, HType(src), src)
    [] op = "ConvMoveConstruct" -> CtorConvMove(s, h, src)
    [] op = "CopyAssign" -> AssignCopy(s, h, HType(h), src)
    [] op = "ConvCopyAssign" -> AssignConvCopy(s, h, HType(h), src)
    [] op = "MoveAssign" -> AssignMove(s, h, HType(h), src, Tmp1)
    [] op = "ConvMoveAssign" -> AssignConvMove(s, h, HType(h), src)
    [] op = "ResetAdopt" -> ResetOf(s, h, HType(h), p, "adopt")
    [] op = "ResetRetain" -> ResetOf(s, h, HType(h), p, "retain")
    [] op \in {"Reset", "AssignNull"} ->
         ResetOf(s, h, HType(h), NULL, DefaultAction)
    [] op = "Release" -> ReleaseOf(s, h)
    [] op = "Swap" -> SwapOf(s, h, src)
    [] op = "Destroy" -> Vanish(Dtor(s, h, HType(h)), h)
    [] op \in {"StaticCastCopy", "ConstCastCopy", "DynamicCastCopy",
               "ReinterpretCastCopy"} ->
         CastCopyOf(s, CastKindOf(op), h, HType(h), src)
    [] op \in {"StaticCastMove", "ConstCastMove", "DynamicCastMove",
               "ReinterpretCastMove"} ->
         CastMoveOf(s, CastKindOf(op), h, HType(h), src)

\* what call c does to the references the caller holds
CallerRefs(c) ==
  IF c.op \in {"ConstructAdopt", "ResetAdopt"} THEN GiveUp(c.p)
  ELSE IF c.op = "Release"
  THEN /\ raw' = IF c.p # NULL THEN [raw EXCEPT ![c.p] = @ + 1] ELSE raw
       /\ fresh' = fresh
  ELSE IF c.op \in {"StaticCastMove", "ConstCastMove", "DynamicCastMove",
                    "ReinterpretCastMove"}
  THEN Drop(CastKindOf(c.op), c.h, c.src) /\ fresh' = fresh
  ELSE UNCHANGED <<fresh, raw>>

\* one retain_ptr call of the program, made in both runs; twin.agree tells
\* whether the call made the same dispatcher calls and stores in both
TwinCall(op) ==
  \E c \in CallsOf(op) :
    /\ Commit(c.s)
    /\ CallerRefs(c)
    /\ twin' = LET r == Apply(op, twin, c.h, c.src, c.p)
               IN [r EXCEPT !.ev = <<>>, !.agree = (r.ev = c.s.ev)]
    /\ UNCHANGED <<storage, tpc, tptr, tseen, tdel, hist, tview, hb,
                   rpc, reg, rlog, cc>>

\* new T in both runs
TwinNew(o) ==
  /\ NextFree(o)
  /\ ostate' = [ostate EXCEPT ![o] = "alive"]
  /\ count' = [count EXCEPT ![o] = InitialCount(storage)]
  /\ fresh' = [fresh EXCEPT ![o] = TRUE]
  /\ twin' = [twin EXCEPT !.ostate[o] = "alive",
                          !.count[o] = InitialCount(twin.st)]
  /\ UNCHANGED <<storage, raw, disposals, m_ptr, ub,
                 tpc, tptr, tseen, tdel, hist, tview, hb, rpc, reg, rlog,
                 cc>>

\* delete p by the owner of the last reference, in both runs
TwinDelete(o) ==
  /\ ostate[o] = "alive"
  /\ Outside(o) = 1 /\ count[o] = 1
  /\ ostate' = [ostate EXCEPT ![o] = "deleted"]
  /\ disposals' = [disposals EXCEPT ![o] = @ + 1]
  /\ raw' = [raw EXCEPT ![o] = 0]
  /\ fresh' = [fresh EXCEPT ![o] = FALSE]
  /\ twin' = [twin EXCEPT !.ostate[o] = "deleted", !.disposals[o] = @ + 1,
                          !.ub = @ \/ twin.ostate[o] # "alive"]
  /\ UNCHANGED <<storage, count, m_ptr, ub,
                 tpc, tptr, tseen, tdel, hist, tview, hb, rpc, reg, rlog,
                 cc>>

InitTwin ==
  /\ storage \in {"plain", "atomic"}
  /\ ostate = [o \in Objects |-> "unborn"]
  /\ count = [o \in Objects |-> 0]
  /\ raw = [o \in Objects |-> 0]
  /\ disposals = [o \in Objects |-> 0]
  /\ m_ptr = [h \in Slots |-> NULL]
  /\ fresh = [o \in Objects |-> FALSE]
  /\ ub = FALSE
  /\ tpc = <<>> /\ tptr = <<>> /\ tseen = <<>> /\ tdel = <<>>
  /\ hist = <<>> /\ tview = <<>> /\ hb = <<>>
  /\ twin = [count |-> count, ostate |-> ostate, disposals |-> disposals,
             m_ptr |-> m_ptr, ub |-> ub, ev |-> <<>>,
             st |-> OtherMixin(storage), agree |-> TRUE]
  /\ rpc = <<>> /\ reg = <<>> /\ rlog = <<>> /\ cc = <<>>

NextTwin ==
  \/ \E o \in Objects : TwinNew(o)
  \/ \E o \in Objects : TwinDelete(o)
  \/ \E op \in Ops : TwinCall(op)

SpecTwin == InitTwin /\ [][NextTwin]_vars

\* ------------------------------------------------- TEST thread_safety
\* The main thread (thread 0) makes one atomically counted object, hands a
\* copy of its handle to each worker thread, resets its own handle and
\* joins.  Each worker reads use_count() of its handle p, copies p into a
\* local lp, reads lp.use_count() twice, and destroys lp and then p.
\* m_count is a std::atomic: hist is its modification order (the part some
\* worker can still read), tview[t] the earliest entry a relaxed load of
\* worker t may return.  fetch_add/fetch_sub act on the latest entry.
Main == 0
Workers == 1 .. NumThreads
Threads == 0 .. NumThreads
TObj == 1

\* the positions at which a worker still has a load of m_count ahead
ReadPcs == {"start", "copy", "read_lp", "print"}

Min(S) == CHOOSE x \in S : \A y \in S : x <= y

\* drops the entries of the modification order no worker can read any more
Forget(H, V, P) ==
  LET R == {t \in Workers : P[t] \in ReadPcs}
      base == IF R = {} \/ H = <<>> THEN Len(H) ELSE Min({V[t] : t \in R})
  IN /\ hist' = SubSeq(H, base, Len(H))
     /\ tview' = [t \in Workers |-> IF t \in R THEN V[t] - base + 1 ELSE 0]

\* ptr->m_count.fetch_add(1, relaxed) by thread t
FetchAdd(t, P) ==
  LET v == IncrementValue(storage, count[TObj])
      H == Append(hist, v)
  IN /\ count' = [count EXCEPT ![TObj] = v]
     /\ ub' = (ub \/ ostate[TObj] # "alive")
     /\ Forget(H, [u \in Workers |-> IF u = t THEN Len(H) ELSE tview[u]], P)

\* variant: the fetch_sub is relaxed, it neither releases nor acquires
FetchSub_Relaxed(t, P) ==
  LET v == count[TObj] - 1
      H == Append(hist, v)
  IN /\ count' = [count EXCEPT ![TObj] = v]
     /\ tdel' = [tdel EXCEPT ![t] = DecrementDisposes(storage, count[TObj])]
     /\ ub' = (ub \/ ostate[TObj] # "alive")
     /\ hb' = hb
     /\ Forget(H, [u \in Workers |-> IF u = t THEN Len(H) ELSE tview[u]], P)

\* ptr->m_count.fetch_sub(1, acq_rel) by thread t; whether it returned 1
\* is recorded in tdel[t].  Every modification of m_count after its
\* initialisation is a read-modify-write, so the fetch_sub reads from the
\* release sequence of every earlier fetch_sub: as an acquire it learns what
\* they released (rel), as a release it adds what t knows
FetchSub(t, P) ==
  LET v == count[TObj] - 1
      H == Append(hist, v)
  IN /\ count' = [count EXCEPT ![TObj] = v]
     /\ tdel' = [tdel EXCEPT ![t] = DecrementDisposes(storage, count[TObj])]
     /\ ub' = (ub \/ ostate[TObj] # "alive")
     /\ hb' = [known |-> [hb.known EXCEPT ![t] = @ \cup hb.rel],
               rel |-> hb.rel \cup hb.known[t]]
     /\ Forget(H, [u \in Workers |-> IF u = t THEN Len(H) ELSE tview[u]], P)

\* ptr->m_count.load(relaxed) by worker t: any entry not older than its view
Load(t, P) ==
  \E i \in tview[t] .. Len(hist) :
    /\ tseen' = [tseen EXCEPT ![t] = hist[i]]
    /\ ub' = (ub \/ ostate[TObj] # "alive")
    /\ Forget(hist, [tview EXCEPT ![t] = i], P)

\* stdx::retain_ptr<BaseTS> p = stdx::make_retain<DerivedTS>(): the
\* constructor of DerivedTS is the main thread's write to the object
TMake ==
  /\ tpc[Main] = "make"
  /\ tpc' = [tpc EXCEPT ![Main] = "spawn"]
  /\ ostate' = [ostate EXCEPT ![TObj] = "alive"]
  /\ count' = [count EXCEPT ![TObj] = 1]
  /\ hist' = <<1>>
  /\ tptr' = [tptr EXCEPT ![Main].p = TObj]
  /\ hb' = [hb EXCEPT !.known[Main] = @ \cup {Main}]
  /\ UNCHANGED <<extVars, storage, fresh, raw, disposals, m_ptr, ub, tseen,
                 tdel, tview>>

\* std::thread t(thr, p, addr): the main thread copies p for the worker
TSpawn(t) ==
  /\ tpc[Main] = "spawn" /\ tpc[t] = "unborn"
  /\ \A u \in Workers : u < t => tpc[u] # "unborn"
  /\ LET P == [tpc EXCEPT ![t] = "start",
                          ![Main] = IF t = NumThreads THEN "reset" ELSE @]
     IN /\ tpc' = P
        /\ tptr' = [tptr EXCEPT ![t].p = tptr[Main].p]
        /\ FetchAdd(t, P)
  /\ hb' = [hb EXCEPT !.known[t] = hb.known[Main]]
  /\ UNCHANGED <<extVars, storage, ostate, fresh, raw, disposals, m_ptr, tseen,
                 tdel>>

\* auto count = p.use_count() in the worker
TUseCount(t) ==
  /\ tpc[t] = "start" /\ tptr[t].p # NULL
  /\ LET P == [tpc EXCEPT ![t] = "copy"]
     IN tpc' = P /\ Load(t, P)
  /\ UNCHANGED <<extVars, storage, ostate, count, fresh, raw, disposals, m_ptr,
                 tptr, tdel, hb>>

\* const stdx::retain_ptr<BaseTS> lp = p
TCopy(t) ==
  /\ tpc[t] = "copy"
  /\ LET P == [tpc EXCEPT ![t] = "read_lp"]
     IN /\ tpc' = P
        /\ tptr' = [tptr EXCEPT ![t].lp = tptr[t].p]
        /\ IF tptr[t].p # NULL THEN FetchAdd(t, P)
           ELSE UNCHANGED <<count, ub, hist, tview>>
  /\ UNCHANGED <<extVars, storage, ostate, fresh, raw, disposals, m_ptr, tseen,
                 tdel, hb>>

\* count = lp.use_count(), and lp.use_count() again when printing
TLpUseCount(t) ==
  /\ tpc[t] \in {"read_lp", "print"} /\ tptr[t].lp # NULL
  /\ LET P == [tpc EXCEPT ![t] = IF @ = "read_lp" THEN "print" ELSE "dlp"]
     IN tpc' = P /\ Load(t, P)
  /\ UNCHANGED <<extVars, storage, ostate, count, fresh, raw, disposals, m_ptr,
                 tptr, tdel, hb>>

\* ~retain_ptr() of lp at the end of the inner block: the fetch_sub
TDestroyLp(t) ==
  /\ tpc[t] = "dlp" /\ tptr[t].lp # NULL
  /\ LET del == DecrementDisposes(storage, count[TObj])
         P == [tpc EXCEPT ![t] = IF del THEN "dlp_delete" ELSE "dp"]
     IN tpc' = P /\ FetchSub(t, P)
  /\ tptr' = [tptr EXCEPT ![t].lp = NULL]
  /\ UNCHANGED <<extVars, storage, ostate, fresh, raw, disposals, m_ptr, tseen>>

\* ~retain_ptr() of the parameter p when the worker returns: the fetch_sub
TDestroyP(t) ==
  /\ tpc[t] = "dp" /\ tptr[t].p # NULL
  /\ LET del == DecrementDisposes(storage, count[TObj])
         P == [tpc EXCEPT ![t] = IF del THEN "dp_delete" ELSE "done"]
     IN tpc' = P /\ FetchSub(t, P)
  /\ tptr' = [tptr EXCEPT ![t].p = NULL]
  /\ UNCHANGED <<extVars, storage, ostate, fresh, raw, disposals, m_ptr, tseen>>

\* p.reset() in the main thread: the fetch_sub of the temporary's destructor
TReset ==
  /\ tpc[Main] = "reset" /\ tptr[Main].p # NULL
  /\ LET del == DecrementDisposes(storage, count[TObj])
         P == [tpc EXCEPT ![Main] = IF del THEN "reset_delete" ELSE "join"]
     IN tpc' = P /\ FetchSub(Main, P)
  /\ tptr' = [tptr EXCEPT ![Main].p = NULL]
  /\ UNCHANGED <<extVars, storage, ostate, fresh, raw, disposals, m_ptr, tseen>>

\* delete t_ptr by the thread whose fetch_sub returned 1
TDelete(t) ==
  /\ tpc[t] \in {"dlp_delete", "dp_delete", "reset_delete"}
  /\ tpc' = [tpc EXCEPT ![t] = IF @ = "dlp_delete" THEN "dp"
                               ELSE IF @ = "dp_delete" THEN "done"
                               ELSE "join"]
  /\ ostate' = [ostate EXCEPT ![TObj] = "disposed"]
  /\ disposals' = [disposals EXCEPT ![TObj] = @ + 1]
  /\ ub' = (ub \/ ostate[TObj] # "alive")
  /\ UNCHANGED <<extVars, storage, count, fresh, raw, m_ptr, tptr, tseen, tdel,
                 hist, tview, hb>>

\* t1.join(); t2.join(); t3.join()
TJoin ==
  /\ tpc[Main] = "join"
  /\ \A t \in Workers : tpc[t] = "done"
  /\ tpc' = [tpc EXCEPT ![Main] = "done"]
  /\ UNCHANGED <<extVars, storage, ostate, count, fresh, raw, disposals, m_ptr,
                 ub, tptr, tseen, tdel, hist, tview, hb>>

\* a worker that holds a handle writes to a member of the object it owns
\* (each worker to a member of its own, once, before it drops a handle)
TWrite(t) ==
  /\ tpc[t] \in {"dlp", "dp"}
  /\ tptr[t].p # NULL \/ tptr[t].lp # NULL
  /\ t \notin hb.known[t]
  /\ hb' = [hb EXCEPT !.known[t] = @ \cup {t}]
  /\ ub' = (ub \/ ostate[TObj] # "alive")
  /\ UNCHANGED <<extVars, storage, ostate, count, fresh, raw, disposals, m_ptr,
                 tpc, tptr, tseen, tdel, hist, tview>>

InitThreads ==
  /\ storage = "atomic"
  /\ ostate = [o \in Objects |-> "unborn"]
  /\ count = [o \in Objects |-> 0]
  /\ raw = [o \in Objects |-> 0]
  /\ disposals = [o \in Objects |-> 0]
  /\ m_ptr = [h \in Slots |-> NULL]
  /\ fresh = [o \in Objects |-> FALSE]
  /\ ub = FALSE
  /\ tpc = [t \in Threads |-> IF t = Main THEN "make" ELSE "unborn"]
  /\ tptr = [t \in Threads |-> [p |-> NULL, lp |-> NULL]]
  /\ tseen = [t \in Workers |-> -1]
  /\ tdel = [t \in Threads |-> FALSE]
  /\ hist = <<>>
  /\ tview = [t \in Workers |-> 0]
  /\ hb = [known |-> [t \in Threads |-> {}], rel |-> {}]
  /\ twin = <<>>
  /\ rpc = <<>> /\ reg = <<>> /\ rlog = <<>> /\ cc = <<>>

NextThreads ==
  \/ TMake
  \/ \E t \in Workers : TSpawn(t)
  \/ \E t \in Workers : TUseCount(t)
  \/ \E t \in Workers : TCopy(t)
  \/ \E t \in Workers : TLpUseCount(t)
  \/ \E t \in Workers : TDestroyLp(t)
  \/ \E t \in Workers : TDestroyP(t)
  \/ TReset
  \/ \E t \in Threads : TDelete(t)
  \/ \E t \in Workers : TWrite(t)
  \/ TJoin

SpecThreads == InitThreads /\ [][NextThreads]_vars

\* ------------------------------- reference_count used from several threads
\* Two objects with the plain mixin, a handle to each of them in every
\* worker thread.  Each worker copies its handle to the first object,
\* destroys its handle to the second, and then destroys its two handles to
\* the first.  ++m_count and --m_count on a plain integer are a load and a
\* store, and another thread's accesses can fall between the two.
RaceObjs == {TObj, TObj + 1}

RaceProgram ==
  <<[k |-> "copy", o |-> TObj], [k |-> "drop", o |-> TObj + 1],
    [k |-> "drop", o |-> TObj], [k |-> "drop", o |-> TObj]>>

\* the handles to o worker t holds: its first one, the copies it has made
\* and not the ones it has destroyed
Held(t, o) ==
  1 + Cardinality({i \in 1 .. rpc[t].op - 1 :
                     RaceProgram[i].o = o /\ RaceProgram[i].k = "copy"})
    - Cardinality({i \in 1 .. rpc[t].op - 1 :
                     RaceProgram[i].o = o /\ RaceProgram[i].k = "drop"})

RECURSIVE SumHeld(_, _)
SumHeld(T, o) ==
  IF T = {} THEN 0
  ELSE LET t == CHOOSE u \in T : TRUE IN Held(t, o) + SumHeld(T \ {t}, o)

\* the handles to o all workers hold
RaceOwners(o) == SumHeld(Workers, o)

\* no worker is half way through an operation
Quiescent == \A t \in Workers : ~rpc[t].half

\* the load of ++ptr->m_count or --ptr->m_count by worker t
RLoad(t) ==
  /\ rpc[t].op <= Len(RaceProgram) /\ ~rpc[t].half
  /\ LET o == RaceProgram[rpc[t].op].o
     IN /\ reg' = [reg EXCEPT ![t] = count[o]]
        /\ ub' = (ub \/ ostate[o] # "alive")
  /\ rpc' = [rpc EXCEPT ![t].half = TRUE]
  /\ UNCHANGED <<storage, ostate, count, fresh, raw, disposals, m_ptr,
                 tpc, tptr, tseen, tdel, hist, tview, hb, twin, rlog, cc>>

\* the store of ++ptr->m_count by worker t: the value it loaded, plus one;
\* rlog[o] records that the store wiped out another thread's update
RIncStore(t) ==
  /\ rpc[t].op <= Len(RaceProgram) /\ rpc[t].half
  /\ RaceProgram[rpc[t].op].k = "copy"
  /\ LET o == RaceProgram[rpc[t].op].o
     IN /\ count' = [count EXCEPT ![o] = IncrementValue(storage, reg[t])]
        /\ rlog' = [rlog EXCEPT ![o] = @ \/ count[o] # reg[t]]
        /\ ub' = (ub \/ ostate[o] # "alive")
  /\ rpc' = [rpc EXCEPT ![t] = [op |-> @.op + 1, half |-> FALSE]]
  /\ UNCHANGED <<storage, ostate, fresh, raw, disposals, m_ptr, reg,
                 tpc, tptr, tseen, tdel, hist, tview, hb, twin, cc>>

\* the store of --ptr->m_count by worker t, the comparison of the stored
\* value with 0 and the delete
RDecStore(t) ==
  /\ rpc[t].op <= Len(RaceProgram) /\ rpc[t].half
  /\ RaceProgram[rpc[t].op].k = "drop"
  /\ LET o == RaceProgram[rpc[t].op].o
         del == DecrementDisposes(storage, reg[t])
     IN /\ count' = [count EXCEPT ![o] = reg[t] - 1]
        /\ rlog' = [rlog EXCEPT ![o] = @ \/ count[o] # reg[t]]
        /\ ostate' = IF del THEN [ostate EXCEPT ![o] = "disposed"] ELSE ostate
        /\ disposals' = IF del THEN [disposals EXCEPT ![o] = @ + 1]
                        ELSE disposals
        /\ ub' = (ub \/ ostate[o] # "alive")
  /\ rpc' = [rpc EXCEPT ![t] = [op |-> @.op + 1, half |-> FALSE]]
  /\ UNCHANGED <<storage, fresh, raw, m_ptr, reg,
                 tpc, tptr, tseen, tdel, hist, tview, hb, twin, cc>>

\* the main thread has made the two objects and handed every worker a
\* handle to each of them, and holds none itself
InitRace ==
  /\ storage = "plain"
  /\ ostate = [o \in Objects |-> IF o \in RaceObjs THEN "alive" ELSE "unborn"]
  /\ count = [o \in Objects |-> IF o \in RaceObjs THEN NumThreads ELSE 0]
  /\ raw = [o \in Objects |-> 0]
  /\ disposals = [o \in Objects |-> 0]
  /\ m_ptr = [h \in Slots |-> NULL]
  /\ fresh = [o \in Objects |-> FALSE]
  /\ ub = FALSE
  /\ tpc = <<>> /\ tptr = <<>> /\ tseen = <<>> /\ tdel = <<>>
  /\ hist = <<>> /\ tview = <<>> /\ hb = <<>> /\ twin = <<>>
  /\ cc = <<>>
  /\ rpc = [t \in Workers |-> [op |-> 1, half |-> FALSE]]
  /\ reg = [t \in Workers |-> 0]
  /\ rlog = [o \in Objects |-> FALSE]

NextRace ==
  \/ \E t \in Workers : RLoad(t)
  \/ \E t \in Workers : RIncStore(t)
  \/ \E t \in Workers : RDecStore(t)

SpecRace == InitRace /\ [][NextRace]_vars

\* ------------------------------------ one retain_ptr used by several threads
\* Two objects with the atomic mixin, each owned by one handle that all
\* worker threads share (count 1).  Every worker calls reset() on the first
\* handle; on the second handle the odd workers call reset() and the even
\* ones copy-construct a handle of their own from it.  The count is atomic,
\* the handle's m_ptr is a plain pointer that the threads load and store.
SharedOf(o) == 2 * o - 1

SharedProgram(t) ==
  <<[k |-> "reset", o |-> TObj],
    [k |-> IF t % 2 = 1 THEN "reset" ELSE "copy", o |-> TObj + 1]>>

\* worker t is at step n of an operation of kind k
SharedAt(t, k, n) ==
  /\ rpc[t].op <= Len(SharedProgram(t))
  /\ SharedProgram(t)[rpc[t].op].k = k
  /\ rpc[t].step = n

\* worker u is part of the way through an operation on the handle of o
Midway(u, o) ==
  /\ rpc[u].op <= Len(SharedProgram(u))
  /\ SharedProgram(u)[rpc[u].op].o = o
  /\ rpc[u].step >= 1

\* variant: the swap leaves this handle's pointer in place
SwapStored_KeepsMine(mine, theirs) == mine

\* swap(m_ptr, other.m_ptr): the value stored into m_ptr
SwapStored(mine, theirs) == theirs

\* the load of the shared handle's m_ptr: by std::swap inside reset(), or
\* by the member initialiser m_ptr(other.m_ptr) of the copy constructor
SLoad(t) ==
  /\ SharedAt(t, "reset", 0) \/ SharedAt(t, "copy", 0)
  /\ LET o == SharedProgram(t)[rpc[t].op].o
     IN /\ reg' = [reg EXCEPT ![t] = m_ptr[SharedOf(o)]]
        /\ rlog' = [rlog EXCEPT ![o].overlap =
                      @ \/ \E u \in Workers \ {t} : Midway(u, o)]
  /\ rpc' = [rpc EXCEPT ![t].step = 1]
  /\ UNCHANGED <<storage, ostate, count, fresh, raw, disposals, m_ptr, ub,
                 tpc, tptr, tseen, tdel, hist, tview, hb, twin, cc>>

\* the store of std::swap into the shared handle's m_ptr inside reset():
\* the pointer of the temporary, which is null
SStore(t) ==
  /\ SharedAt(t, "reset", 1)
  /\ LET g == SharedOf(SharedProgram(t)[rpc[t].op].o)
     IN m_ptr' = [m_ptr EXCEPT ![g] = SwapStored(reg[t], NULL)]
  /\ rpc' = [rpc EXCEPT ![t].step = 2]
  /\ UNCHANGED <<storage, ostate, count, fresh, raw, disposals, ub, reg,
                 tpc, tptr, tseen, tdel, hist, tview, hb, twin, rlog, cc>>

\* the destructor of the temporary of reset(), which holds the pointer the
\* swap loaded: fetch_sub, and delete when it returned 1
SDrop(t) ==
  /\ SharedAt(t, "reset", 2)
  /\ LET o == SharedProgram(t)[rpc[t].op].o
         p == reg[t]
     IN IF p # NULL
        THEN LET del == DecrementDisposes(storage, count[p])
             IN /\ count' = [count EXCEPT ![p] = @ - 1]
                /\ ostate' = IF del THEN [ostate EXCEPT ![p] = "disposed"]
                             ELSE ostate
                /\ disposals' = IF del THEN [disposals EXCEPT ![p] = @ + 1]
                                ELSE disposals
                /\ ub' = (ub \/ ostate[p] # "alive")
                /\ rlog' = [rlog EXCEPT ![p].decs = @ + 1]
        ELSE UNCHANGED <<count, ostate, disposals, ub, rlog>>
  /\ rpc' = [rpc EXCEPT ![t] = [op |-> @.op + 1, step |-> 0]]
  /\ UNCHANGED <<storage, fresh, raw, m_ptr, reg,
                 tpc, tptr, tseen, tdel, hist, tview, hb, twin, cc>>

\* the body of the copy constructor: if (*this) increment(get()), fetch_add
SInc(t) ==
  /\ SharedAt(t, "copy", 1)
  /\ LET p == reg[t]
     IN IF p # NULL
        THEN /\ count' = [count EXCEPT ![p] = IncrementValue(storage, @)]
             /\ ub' = (ub \/ ostate[p] # "alive")
             /\ rlog' = [rlog EXCEPT ![p].incs = @ + 1,
                                     ![p].late = @ \/ ostate[p] # "alive"]
        ELSE UNCHANGED <<count, ub, rlog>>
  /\ rpc' = [rpc EXCEPT ![t] = [op |-> @.op + 1, step |-> 0]]
  /\ UNCHANGED <<storage, ostate, fresh, raw, disposals, m_ptr, reg,
                 tpc, tptr, tseen, tdel, hist, tview, hb, twin, cc>>

\* the main thread has made the two objects, each adopted by one handle
InitShared ==
  /\ storage = "atomic"
  /\ ostate = [o \in Objects |-> IF o \in RaceObjs THEN "alive" ELSE "unborn"]
  /\ count = [o \in Objects |->
                IF o \in RaceObjs THEN InitialCount(storage) ELSE 0]
  /\ raw = [o \in Objects |-> 0]
  /\ disposals = [o \in Objects |-> 0]
  /\ m_ptr = [h \in Slots |->
                IF \E o \in RaceObjs : h = SharedOf(o)
                THEN CHOOSE o \in RaceObjs : h = SharedOf(o) ELSE NULL]
  /\ fresh = [o \in Objects |-> FALSE]
  /\ ub = FALSE
  /\ tpc = <<>> /\ tptr = <<>> /\ tseen = <<>> /\ tdel = <<>>
  /\ hist = <<>> /\ tview = <<>> /\ hb = <<>> /\ twin = <<>>
  /\ cc = <<>>
  /\ rpc = [t \in Workers |-> [op |-> 1, step |-> 0]]
  /\ reg = [t \in Workers |-> NULL]
  /\ rlog = [o \in Objects |->
               [incs |-> 0, decs |-> 0, late |-> FALSE, overlap |-> FALSE]]

NextShared ==
  \/ \E t \in Workers : SLoad(t)
  \/ \E t \in Workers : SStore(t)
  \/ \E t \in Workers : SDrop(t)
  \/ \E t \in Workers : SInc(t)

SpecShared == InitShared /\ [][NextShared]_vars

\* ------------------------------------------------------------ clamp_cast
\* The integer types: signed or unsigned, 1 to MaxBits bits wide (two's
\* complement); intmax_t and uintmax_t are the widest ones.
IntTypes == [sgn : BOOLEAN, w : 1 .. MaxBits]
IntMax == [sgn |-> TRUE, w |-> MaxBits]
UIntMax == [sgn |-> FALSE, w |-> MaxBits]

\* std::numeric_limits<T>::max() and lowest()
NumericMax(T) == IF T.sgn THEN 2 ^ (T.w - 1) - 1 ELSE 2 ^ T.w - 1
NumericLowest(T) == IF T.sgn THEN 0 - 2 ^ (T.w - 1) ELSE 0
ValuesOf(T) == NumericLowest(T) .. NumericMax(T)

\* static_cast<T>(v) between integer types: v modulo 2^w
StaticCast(T, v) ==
  LET m == v % (2 ^ T.w)
  IN IF T.sgn /\ m > NumericMax(T) THEN m - 2 ^ T.w ELSE m

\* detail::max_value<T>(): the maximum as intmax_t or uintmax_t
MaxValue(T) ==
  [type |-> IF T.sgn THEN IntMax ELSE UIntMax,
   val |-> StaticCast(IF T.sgn THEN IntMax ELSE UIntMax, NumericMax(T))]

\* std::common_type_t of the types of two max_value results
CommonMaxType(a, b) == IF a.type.sgn /\ b.type.sgn THEN IntMax ELSE UIntMax

\* static_cast<common_max_type>(from_max_value)
\*   > static_cast<common_max_type>(to_max_value)
FromIsWider(From, To) ==
  LET C == CommonMaxType(MaxValue(From), MaxValue(To))
  IN StaticCast(C, MaxValue(From).val) > StaticCast(C, MaxValue(To).val)

\* variant: the value below the range of To is cast, not clamped
ClampCastImpl_NoLowCheck(From, To, from) ==
  LET hi == StaticCast(From, NumericMax(To))
  IN IF from > hi THEN NumericMax(To) ELSE StaticCast(To, from)

\* detail::clamp_cast_impl<From, To>(from)
ClampCastImpl(From, To, from) ==
  IF From.sgn = To.sgn
  THEN LET low == StaticCast(From, NumericLowest(To))
           hi == StaticCast(From, NumericMax(To))
       IN IF from > hi THEN NumericMax(To)
          ELSE IF from < low THEN NumericLowest(To)
          ELSE StaticCast(To, from)
  ELSE LET low == 0
           hi == StaticCast(From, NumericMax(To))
       IN IF from > hi THEN NumericMax(To)
          ELSE IF from < low THEN StaticCast(To, low)
          ELSE StaticCast(To, from)

\* clamp_cast<To>(From from)
ClampCast(To, From, from) ==
  IF From = To THEN from
  ELSE IF From.sgn /\ ~To.sgn
  THEN IF FromIsWider(From, To) THEN ClampCastImpl(From, To, from)
       ELSE IF from < StaticCast(From, 0) THEN 0
       ELSE StaticCast(To, from)
  ELSE IF FromIsWider(From, To) THEN ClampCastImpl(From, To, from)
       ELSE StaticCast(To, from)

\* auto r = clamp_cast<To>(v)
ClampCall ==
  /\ ~cc.done
  /\ cc' = [cc EXCEPT !.done = TRUE,
                      !.res = ClampCast(cc.to, cc.from, cc.v)]
  /\ UNCHANGED <<storage, ostate, count, fresh, raw, disposals, m_ptr, ub,
                 tpc, tptr, tseen, tdel, hist, tview, hb, twin, rpc, reg,
                 rlog>>

\* any two integer types and any value of the source type
InitClamp ==
  /\ storage = "plain"
  /\ ostate = [o \in Objects |-> "unborn"]
  /\ count = [o \in Objects |-> 0]
  /\ raw = [o \in Objects |-> 0]
  /\ disposals = [o \in Objects |-> 0]
  /\ m_ptr = [h \in Slots |-> NULL]
  /\ fresh = [o \in Objects |-> FALSE]
  /\ ub = FALSE
  /\ tpc = <<>> /\ tptr = <<>> /\ tseen = <<>> /\ tdel = <<>>
  /\ hist = <<>> /\ tview = <<>> /\ hb = <<>> /\ twin = <<>>
  /\ rpc = <<>> /\ reg = <<>> /\ rlog = <<>>
  /\ \E From \in IntTypes, To \in IntTypes :
       \E v \in ValuesOf(From) :
         cc = [from |-> From, to |-> To, v |-> v, done |-> FALSE, res |-> 0]

NextClamp == ClampCall

SpecClamp == InitClamp /\ [][NextClamp]_vars

\* --------------------------------------------------------- sanity
TypeOK ==
  /\ storage \in {"plain", "atomic"}
  /\ ostate \in [Objects -> {"unborn", "alive", "disposed", "deleted"}]
  /\ count \in [Objects -> 0 .. MaxCount]
  /\ raw \in [Objects -> 0 .. 1]
  /\ fresh \in [Objects -> BOOLEAN]
  /\ m_ptr \in [Slots -> Pointers]
  /\ \A h \in Handles : Compatible(HType(h), m_ptr[h])
  /\ m_ptr[Tmp1] = NULL /\ m_ptr[Tmp2] = NULL

\* the count of a live object is the number of references to it: those of
\* the handles and those the caller holds through raw pointers
CountBalance ==
  \A o \in Objects :
    ostate[o] = "alive" => count[o] = Cardinality(Owners(o)) + Outside(o)

\* no dispatcher call touches an object after its disposal
NoUB == ~ub

\* the cap of Commit never disables a call
CapNeverBinds == \A c \in Calls : \A o \in Objects : c.s.count[o] <= MaxCount

\* ------------------------------------------------------------- claims

\* C1: for an object whose references are all held by retain_ptr handles
\* (adopted when it was created, copied by copy construction and copy
\* assignment, dropped by destruction), the count equals the number of
\* live handles whose stored pointer refers to it, in every reachable state.
C1_CountEqualsOwners ==
  \A o \in Objects :
    (ostate[o] = "alive" /\ Outside(o) = 0)
      => count[o] = Cardinality(Owners(o))

\* three handles share one object after copies, and its count is 3
C1_Witness ==
  \E o \in Objects :
    /\ ostate[o] = "alive" /\ Outside(o) = 0
    /\ Cardinality(Owners(o)) = 3 /\ count[o] = 3

\* C2: an object is deleted at most once, and a decrement call deletes it
\* exactly when it finds the count at 1 (and leaves it at 0); a decrement
\* that finds a larger count deletes nothing.  Both mixins (storage).
C2_DisposeOnLastDecrement ==
  /\ \A o \in Objects : disposals[o] <= 1
  /\ \A o \in Objects : ostate[o] = "disposed" => count[o] = 0
  /\ \A c \in Calls :
       /\ \A o \in Objects : c.s.disposals[o] <= 1
       /\ \A i \in Dispatched(c.s) :
            c.s.ev[i].k = "dec" =>
              /\ c.s.ev[i].del <=> (c.s.ev[i].pre = 1)
              /\ c.s.ev[i].del <=> (c.s.ostate[c.s.ev[i].o] = "disposed")

\* with the atomic mixin, one object was disposed by a decrement, and a
\* call is possible whose decrement finds the count at 2 and deletes nothing
C2_Witness ==
  /\ storage = "atomic"
  /\ \E o \in Objects : ostate[o] = "disposed" /\ disposals[o] = 1
  /\ \E c \in Calls : \E i \in Dispatched(c.s) :
       c.s.ev[i].k = "dec" /\ c.s.ev[i].pre = 2 /\ ~c.s.ev[i].del
  /\ \E c \in Calls : \E i \in Dispatched(c.s) :
       c.s.ev[i].k = "dec" /\ c.s.ev[i].pre = 1 /\ c.s.ev[i].del

\* the handles that refer to o after the step
OwnersAfter(o) == {h \in Handles : m_ptr'[h] = o}

\* C3 as stated: an object is not disposed while an Owning handle refers
\* to it, and the step by which the last handle stops referring to it
\* (destruction, reset, reassignment; no pointer handed out by release()
\* is outstanding) leaves it disposed.
C3_LifetimeOfLastHandle ==
  /\ [](\A o \in Objects : Owners(o) # {} => ostate[o] = "alive")
  /\ [][\A o \in Objects :
          (Owners(o) # {} /\ OwnersAfter(o) = {} /\ raw'[o] = 0)
            => ostate'[o] # "alive"]_vars

\* C3 amended: an object is not disposed while an Owning handle refers to
\* it, and an object to which no handle refers any more and no reference
\* is held outside the handles (the pointer new returned was adopted, no
\* pointer release() returned is outstanding) has been disposed.
C3_LifetimeWhenAllAdopted ==
  \A o \in Objects :
    /\ Owners(o) # {} => ostate[o] = "alive"
    /\ (ostate[o] # "unborn" /\ Owners(o) = {} /\ Outside(o) = 0)
         => ostate[o] \in {"disposed", "deleted"}

\* one object was disposed once its handles were gone while another, still
\* owned, is alive
C3_Witness ==
  /\ \E o \in Objects :
       ostate[o] = "disposed" /\ Owners(o) = {} /\ Outside(o) = 0
  /\ \E o \in Objects : ostate[o] = "alive" /\ Owners(o) # {}

\* C4: copy assignment (same type and converting) increments other's
\* target before it decrements the old target of *this; when two distinct
\* handles refer to the same object the count never reaches 0 during the
\* call, the object is not disposed, and count and both targets are the
\* same after the call.
C4_CopyAssignIncrementFirst ==
  \A c \in CallsOf("CopyAssign") \cup CallsOf("ConvCopyAssign") :
      LET old == m_ptr[c.h]
          new == m_ptr[c.src]
      IN /\ \A i \in IncsOn(c.s, new) : \A j \in DecsOn(c.s, old) : i < j
         /\ (c.h # c.src /\ new # NULL) => Cardinality(IncsOn(c.s, new)) = 1
         /\ (c.h # c.src /\ old # NULL) => Cardinality(DecsOn(c.s, old)) = 1
         /\ (c.h # c.src /\ old = new /\ new # NULL) =>
              /\ \A j \in DecsOn(c.s, new) : c.s.ev[j].pre >= 2
              /\ \A j \in DecsOn(c.s, new) : ~c.s.ev[j].del
              /\ c.s.ostate[new] = "alive"
              /\ c.s.disposals = disposals
              /\ c.s.count = count
              /\ c.s.m_ptr[c.h] = old /\ c.s.m_ptr[c.src] = new

\* a same-type and a converting copy assignment between distinct handles
\* that refer to the same object are possible, each with its increment
\* and its decrement
C4_Witness ==
  \E c1, c2 \in Calls :
    /\ c1.op = "CopyAssign" /\ c2.op = "ConvCopyAssign"
    /\ c1.h # c1.src /\ m_ptr[c1.h] = m_ptr[c1.src] /\ m_ptr[c1.h] # NULL
    /\ c2.h # c2.src /\ m_ptr[c2.h] = m_ptr[c2.src] /\ m_ptr[c2.h] # NULL
    /\ IncsOn(c1.s, m_ptr[c1.h]) # {} /\ DecsOn(c1.s, m_ptr[c1.h]) # {}
    /\ IncsOn(c2.s, m_ptr[c2.h]) # {} /\ DecsOn(c2.s, m_ptr[c2.h]) # {}
    /\ c1.s.count = count /\ c2.s.count = count

\* C7 as stated: move construction and move assignment (between distinct
\* handles) never change the count of the moved object; the moved-from
\* handle is Empty afterwards, reports use_count() 0, and its destruction
\* decrements nothing.
C7_MoveKeepsCount ==
  \A c \in CallsOf("MoveConstruct") \cup CallsOf("MoveAssign") :
    c.h # c.src =>
      /\ c.p # NULL => c.s.count[c.p] = count[c.p]
      /\ c.s.m_ptr[c.src] = NULL
      /\ UseCountOf(c.s, c.src) = 0
      /\ Dispatched(Dtor(c.s, c.src, HType(c.src))) = Dispatched(c.s)

\* C7 amended: as stated, except that a move assignment into a handle that
\* already refers to the moved object drops that handle's own reference:
\* the object's count is then lower by exactly 1 and it is not disposed.
C7_MoveKeepsCountUnlessAliased ==
  \A c \in CallsOf("MoveConstruct") \cup CallsOf("MoveAssign") :
    c.h # c.src =>
      /\ (c.p # NULL /\ ~(c.op = "MoveAssign" /\ m_ptr[c.h] = c.p))
           => c.s.count[c.p] = count[c.p]
      /\ (c.p # NULL /\ c.op = "MoveAssign" /\ m_ptr[c.h] = c.p)
           => c.s.count[c.p] = count[c.p] - 1 /\ c.s.ostate[c.p] = "alive"
      /\ c.p # NULL => IncsOn(c.s, c.p) = {}
      /\ c.s.m_ptr[c.h] = c.p
      /\ c.s.m_ptr[c.src] = NULL
      /\ UseCountOf(c.s, c.src) = 0
      /\ Dispatched(Dtor(c.s, c.src, HType(c.src))) = Dispatched(c.s)

\* a move assignment between distinct handles that refer to the same
\* object is possible: the source is Empty afterwards, the destination
\* still refers to the object and the count went from 2 to 1
C7_Witness ==
  \E c \in Calls :
    /\ c.op = "MoveAssign" /\ c.h # c.src /\ c.p # NULL
    /\ m_ptr[c.h] = c.p /\ count[c.p] = 2
    /\ c.s.count[c.p] = 1 /\ c.s.ostate[c.p] = "alive"
    /\ c.s.m_ptr[c.src] = NULL /\ c.s.m_ptr[c.h] = c.p

\* C8: copy-assigning and move-assigning a handle to itself leave its
\* stored pointer and every count unchanged and call neither increment nor
\* decrement.
C8_SelfAssignNoEffect ==
  \A c \in CallsOf("CopyAssign") \cup CallsOf("MoveAssign") :
    c.h = c.src =>
      /\ c.s.m_ptr[c.h] = m_ptr[c.h]
      /\ c.s.count = count
      /\ c.s.ostate = ostate
      /\ Dispatched(c.s) = {}

\* a handle that is the sole owner of an object can be copy-assigned and
\* move-assigned to itself
C8_Witness ==
  \E c1, c2 \in Calls :
    /\ c1.op = "CopyAssign" /\ c1.h = c1.src
    /\ c2.op = "MoveAssign" /\ c2.h = c2.src /\ c2.h = c1.h
    /\ m_ptr[c1.h] # NULL /\ count[m_ptr[c1.h]] = 1
    /\ c1.s.count = count /\ c2.s.m_ptr[c2.h] = m_ptr[c2.h]

\* C9: converting a Derived-owning handle to a Base handle by copy
\* construction increments the object's count by exactly 1 and leaves the
\* source Owning; by move construction it leaves the count unchanged and
\* the source Empty; the new handle stores the same object in both cases.
C9_ConvertingConstruct ==
  \A c \in CallsOf("ConvCopyConstruct") \cup CallsOf("ConvMoveConstruct") :
    /\ (c.op = "ConvCopyConstruct" /\ c.p # NULL) =>
         /\ c.s.count = [count EXCEPT ![c.p] = @ + 1]
         /\ Cardinality(IncsOn(c.s, c.p)) = 1
         /\ Cardinality(Dispatched(c.s)) = 1
         /\ c.s.m_ptr[c.src] = c.p
         /\ c.s.m_ptr[c.h] = c.p
    /\ (c.op = "ConvMoveConstruct" /\ c.p # NULL) =>
         /\ c.s.count = count
         /\ Dispatched(c.s) = {}
         /\ c.s.m_ptr[c.src] = NULL
         /\ c.s.m_ptr[c.h] = c.p

\* a Derived handle owns an object and a Base handle can be constructed
\* from it by copy (count 1 to 2) and by move (count stays 1)
C9_Witness ==
  \E c1, c2 \in Calls :
    /\ c1.op = "ConvCopyConstruct" /\ c2.op = "ConvMoveConstruct"
    /\ c1.p # NULL /\ c2.p = c1.p /\ count[c1.p] = 1
    /\ c1.s.count[c1.p] = 2 /\ c1.s.m_ptr[c1.src] = c1.p
    /\ c2.s.count[c2.p] = 1 /\ c2.s.m_ptr[c2.src] = NULL
    /\ c2.s.m_ptr[c2.h] = c2.p

\* C10: construct(adopt, p) stores p and changes no count; construct(retain,
\* p) stores p and increments p's count by exactly 1 when p is non-null;
\* with a null p both give an Empty handle and call no increment.  The new
\* handle is Owning iff p is non-null.
C10_ConstructAdoptRetain ==
  \A c \in CallsOf("ConstructAdopt") \cup CallsOf("ConstructRetain") :
    /\ c.op = "ConstructAdopt" =>
         /\ c.s.m_ptr[c.h] = c.p
         /\ c.s.count = count
         /\ Dispatched(c.s) = {}
         /\ Bool(c.s, c.h) <=> (c.p # NULL)
    /\ c.op = "ConstructRetain" =>
         /\ c.s.m_ptr[c.h] = c.p
         /\ c.p # NULL => /\ c.s.count = [count EXCEPT ![c.p] = @ + 1]
                          /\ Cardinality(IncsOn(c.s, c.p)) = 1
                          /\ Cardinality(Dispatched(c.s)) = 1
         /\ c.p = NULL => c.s.count = count /\ Dispatched(c.s) = {}
         /\ Bool(c.s, c.h) <=> (c.p # NULL)

\* the four constructions are possible: adopt and retain, of a live
\* object and of null
C10_Witness ==
  \E c1, c2, c3, c4 \in Calls :
    /\ c1.op = "ConstructAdopt" /\ c1.p # NULL /\ c1.s.m_ptr[c1.h] = c1.p
    /\ c2.op = "ConstructRetain" /\ c2.p # NULL
    /\ c2.s.count[c2.p] = count[c2.p] + 1
    /\ c3.op = "ConstructAdopt" /\ c3.p = NULL /\ ~Bool(c3.s, c3.h)
    /\ c4.op = "ConstructRetain" /\ c4.p = NULL /\ ~Bool(c4.s, c4.h)
\* the handles of the threads that refer to the shared object
THandles == {<<t, f>> \in Threads \X {"p", "lp"} : tptr[t][f] = TObj}

TypeOKThreads ==
  /\ tpc \in [Threads -> {"make", "spawn", "reset", "reset_delete", "join",
                          "done", "unborn", "start", "copy", "read_lp",
                          "print", "dlp", "dlp_delete", "dp", "dp_delete"}]
  /\ \A t \in Threads : tptr[t].p \in {NULL, TObj} /\ tptr[t].lp \in {NULL, TObj}
  /\ tseen \in [Workers -> -1 .. (2 * NumThreads + 1)]
  /\ tdel \in [Threads -> BOOLEAN]
  /\ hist # <<>> => hist[Len(hist)] = count[TObj]
  /\ \A t \in Workers : tpc[t] \in ReadPcs => tview[t] \in 1 .. Len(hist)
  /\ hb.rel \subseteq Threads
  /\ \A t \in Threads : hb.known[t] \subseteq Threads

\* C5: with the atomic mixin and every thread working on its own handles,
\* in every interleaving at most one thread's fetch_sub returns 1, the
\* object is deleted at most once, never while a handle refers to it and
\* never touched after its deletion; and when all threads have finished
\* exactly one thread has seen the 1 to 0 transition and the object has
\* been deleted exactly once.
C5_ExactlyOneThreadDisposes ==
  /\ disposals[TObj] <= 1
  /\ Cardinality({t \in Threads : tdel[t]}) <= 1
  /\ (\E t \in Threads : tdel[t]) => (THandles = {} /\ count[TObj] = 0)
  /\ ostate[TObj] = "disposed" => (THandles = {} /\ \E t \in Threads : tdel[t])
  /\ ostate[TObj] = "alive" /\ tpc[Main] # "make" =>
       count[TObj] = Cardinality(THandles)
  /\ ~ub
  /\ tpc[Main] = "done" =>
       /\ Cardinality({t \in Threads : tdel[t]}) = 1
       /\ disposals[TObj] = 1 /\ ostate[TObj] = "disposed"

\* all threads have finished and it was a worker whose decrement took the
\* count from 1 to 0 and deleted the object
C5_Witness ==
  /\ tpc[Main] = "done" /\ disposals[TObj] = 1
  /\ \E t \in Workers : tdel[t]
  /\ \A t \in Workers : tseen[t] >= 1

\* C6: with the atomic mixin, every use_count() a worker reads on an
\* Owning handle is at least 1 (every value a relaxed load may return where
\* the worker stands is), whatever the other threads and the main thread's
\* reset have done, and the worker's copy lp stores the same object as p.
C6_WorkerSeesPositiveCount ==
  /\ \A t \in Workers : tseen[t] # -1 => tseen[t] >= 1
  /\ \A t \in Workers :
       tpc[t] \in ReadPcs =>
         /\ tptr[t].p = TObj
         /\ \A i \in tview[t] .. Len(hist) : hist[i] >= 1
  /\ \A t \in Workers :
       tpc[t] \in {"read_lp", "print", "dlp"} =>
         tptr[t].lp = tptr[t].p /\ tptr[t].lp = TObj
  /\ tpc[Main] \in {"join", "done"} => tptr[Main].p = NULL

\* a worker has read use_count() = 1 on its handle p: the main thread has
\* reset its handle and every other worker has destroyed both of its own
C6_Witness ==
  \E t \in Workers :
    /\ tpc[t] = "copy" /\ tseen[t] = 1 /\ tptr[t].p = TObj
    /\ tpc[Main] = "join" /\ tptr[Main].p = NULL
    /\ \A u \in Workers \ {t} : tpc[u] = "done"

\* the casts of an lvalue
CopyCasts ==
  {"StaticCastCopy", "ConstCastCopy", "DynamicCastCopy", "ReinterpretCastCopy"}

\* C11 as stated: a dynamic_pointer_cast of an rvalue whose object does
\* not have the target type gives an Empty result, leaves the source
\* Empty, and decrements the object once for the reference the source held.
C11_FailedMoveCastDropsReference ==
  \A c \in CallsOf("DynamicCastMove") :
    (c.p # NULL /\ ~Compatible(HType(c.h), c.p)) =>
      /\ c.s.m_ptr[c.h] = NULL
      /\ c.s.m_ptr[c.src] = NULL
      /\ Cardinality(DecsOn(c.s, c.p)) = 1
      /\ c.s.count[c.p] = count[c.p] - 1

\* the sole handle of a Base object can be cast as an rvalue to Derived:
\* afterwards no handle stores the object, nothing was decremented and the
\* object is alive with count 1
C11_Witness ==
  \E c \in CallsOf("DynamicCastMove") :
    /\ c.p # NULL /\ ~Compatible(HType(c.h), c.p)
    /\ Owners(c.p) = {c.src} /\ count[c.p] = 1
    /\ c.s.m_ptr[c.h] = NULL /\ c.s.m_ptr[c.src] = NULL
    /\ Dispatched(c.s) = {}
    /\ c.s.count[c.p] = 1 /\ c.s.ostate[c.p] = "alive"

\* C12: a dynamic_pointer_cast of an lvalue whose type check fails, or
\* whose source is Empty, gives an Empty result and leaves the source's
\* stored pointer, every count and every object as they were.
C12_FailedCopyCastNoEffect ==
  \A c \in CallsOf("DynamicCastCopy") :
    (c.p = NULL \/ ~Compatible(HType(c.h), c.p)) =>
      /\ c.s.m_ptr[c.h] = NULL
      /\ c.s.m_ptr[c.src] = m_ptr[c.src]
      /\ c.s.count = count
      /\ c.s.ostate = ostate
      /\ Dispatched(c.s) = {}

\* a Base handle that owns a Base object and an Empty handle can both be
\* cast as lvalues to Derived, with an Empty result
C12_Witness ==
  \E c1, c2 \in CallsOf("DynamicCastCopy") :
    /\ c1.p # NULL /\ ~Compatible(HType(c1.h), c1.p)
    /\ c1.s.m_ptr[c1.h] = NULL /\ c1.s.m_ptr[c1.src] = c1.p
    /\ c1.s.count[c1.p] = count[c1.p]
    /\ c2.p = NULL /\ c2.s.m_ptr[c2.h] = NULL

\* C13: a static, const, reinterpret or succeeding dynamic cast of an
\* Owning lvalue returns a handle to the same object, increments its count
\* by exactly 1 and leaves the source Owning; of an Empty lvalue it returns
\* an Empty handle and calls no increment.
C13_CopyCastRetains ==
  \A op \in CopyCasts : \A c \in CallsOf(op) :
    /\ (c.p # NULL /\ (op = "DynamicCastCopy" => Compatible(HType(c.h), c.p)))
         => /\ c.s.m_ptr[c.h] = c.p
            /\ c.s.m_ptr[c.src] = c.p
            /\ c.s.count = [count EXCEPT ![c.p] = @ + 1]
            /\ Cardinality(IncsOn(c.s, c.p)) = 1
            /\ Cardinality(Dispatched(c.s)) = 1
    /\ c.p = NULL
         => /\ c.s.m_ptr[c.h] = NULL
            /\ c.s.count = count
            /\ Dispatched(c.s) = {}

\* each of the four casts can be applied to an Owning lvalue, taking the
\* object's count from 1 to 2, and a cast to an Empty one
C13_Witness ==
  /\ \A op \in CopyCasts : \E c \in CallsOf(op) :
       /\ c.p # NULL /\ count[c.p] = 1
       /\ c.s.m_ptr[c.h] = c.p /\ c.s.count[c.p] = 2
  /\ \E c \in CallsOf("StaticCastCopy") :
       c.p = NULL /\ c.s.m_ptr[c.h] = NULL

\* C14: release() returns the pointer get() returned before the call,
\* leaves the handle Empty and changes no count and calls no traits
\* function; destroying the handle afterwards decrements nothing, the
\* object is still alive for the caller to delete, and no object is ever
\* disposed more than once.
C14_ReleaseGivesUpWithoutDecrement ==
  /\ \A c \in CallsOf("Release") :
       /\ ReleaseRet(Cur, c.h) = Get(Cur, c.h)
       /\ Get(c.s, c.h) = NULL
       /\ \A g \in Handles \ {c.h} : c.s.m_ptr[g] = m_ptr[g]
       /\ c.s.count = count
       /\ c.s.ostate = ostate
       /\ c.s.disposals = disposals
       /\ Dispatched(c.s) = {}
       /\ Dispatched(Dtor(c.s, c.h, HType(c.h))) = {}
  /\ \A o \in Objects :
       /\ disposals[o] <= 1
       /\ ostate[o] = "deleted" => disposals[o] = 1 /\ Owners(o) = {}

\* the sole handle of an object can release it: the object stays alive
\* with count 1 and no handle; and an object has been deleted by hand
C14_Witness ==
  /\ \E c \in CallsOf("Release") :
       /\ c.p # NULL /\ Owners(c.p) = {c.h} /\ count[c.p] = 1
       /\ ReleaseRet(Cur, c.h) = c.p
       /\ c.s.m_ptr[c.h] = NULL
       /\ c.s.count[c.p] = 1 /\ c.s.ostate[c.p] = "alive"
  /\ \E o \in Objects : ostate[o] = "deleted" /\ disposals[o] = 1

\* C15: swap exchanges the stored pointers of the two handles and changes
\* no count, disposes nothing and calls no traits function.
C15_SwapExchangesPointers ==
  \A c \in CallsOf("Swap") :
    /\ c.s.m_ptr[c.h] = m_ptr[c.src]
    /\ c.s.m_ptr[c.src] = m_ptr[c.h]
    /\ \A g \in Handles \ {c.h, c.src} : c.s.m_ptr[g] = m_ptr[g]
    /\ c.s.count = count
    /\ c.s.ostate = ostate
    /\ Dispatched(c.s) = {}

\* two handles that own different objects with different counts can be
\* swapped
C15_Witness ==
  \E c \in CallsOf("Swap") :
    /\ m_ptr[c.h] # NULL /\ m_ptr[c.src] # NULL
    /\ m_ptr[c.h] # m_ptr[c.src]
    /\ count[m_ptr[c.h]] # count[m_ptr[c.src]]
    /\ c.s.m_ptr[c.h] = m_ptr[c.src] /\ c.s.m_ptr[c.src] = m_ptr[c.h]
    /\ c.s.count = count

\* C16: use_count() is 0 for an Empty handle and the object's current
\* count for an Owning one, so all handles that refer to the same object
\* report the same value.
C16_UseCountIsCount ==
  /\ \A h \in Handles :
       UseCountOf(Cur, h) = IF m_ptr[h] = NULL THEN 0 ELSE count[m_ptr[h]]
  /\ \A h, g \in Handles :
       (m_ptr[h] # NULL /\ m_ptr[h] = m_ptr[g])
          => UseCountOf(Cur, h) = UseCountOf(Cur, g)

\* two handles share an object another reference to which is held outside
\* the handles: both report 3, and an Empty handle reports 0
C16_Witness ==
  \E h, g, e \in Handles :
    /\ h # g /\ m_ptr[h] # NULL /\ m_ptr[g] = m_ptr[h] /\ m_ptr[e] = NULL
    /\ count[m_ptr[h]] = 3
    /\ UseCountOf(Cur, h) = 3 /\ UseCountOf(Cur, g) = 3
    /\ UseCountOf(Cur, e) = 0

\* C17: reset() and assignment of nullptr leave the handle Empty and
\* decrement the previous target exactly once if the handle was Owning
\* (no traits call if it was Empty), which is what reset(nullptr,
\* adopt_object) does, whichever default_action the traits declare.
C17_ResetToNull ==
  \A h \in Handles :
    LET old == m_ptr[h]
        r == ResetOf(Cur, h, HType(h), NULL, "adopt")
    IN /\ ResetRes(h) = r
       /\ AssignNullRes(h) = r
       /\ \A a \in {"adopt", "retain"} : ResetOf(Cur, h, HType(h), NULL, a) = r
       /\ r.m_ptr[h] = NULL
       /\ \A g \in Handles \ {h} : r.m_ptr[g] = m_ptr[g]
       /\ old # NULL
            => /\ Cardinality(DecsOn(r, old)) = 1
               /\ Cardinality(Dispatched(r)) = 1
               /\ r.count = [count EXCEPT ![old] = @ - 1]
               /\ r.ostate[old] = IF count[old] = 1 THEN "disposed" ELSE "alive"
       /\ old = NULL
            => /\ Dispatched(r) = {}
               /\ r.count = count
               /\ r.ostate = ostate

\* the sole handle of an object can be reset, which disposes the object; a
\* handle that shares its object can be reset, which leaves it alive; and
\* an Empty handle can be reset
C17_Witness ==
  \E h, g, e \in Handles :
    /\ m_ptr[h] # NULL /\ count[m_ptr[h]] = 1
    /\ ResetRes(h).m_ptr[h] = NULL
    /\ ResetRes(h).ostate[m_ptr[h]] = "disposed"
    /\ m_ptr[g] # NULL /\ count[m_ptr[g]] = 2
    /\ AssignNullRes(g).m_ptr[g] = NULL
    /\ AssignNullRes(g).count[m_ptr[g]] = 1
    /\ m_ptr[e] = NULL /\ Dispatched(ResetRes(e)) = {}

\* C18: with either mixin an object has count 1 immediately after its
\* construction, and make_retain returns an Owning handle that adopted the
\* object it created: use_count() is 1 and no traits function was called.
C18_InitialCountIsOne ==
  /\ [](\A c \in CallsOf("MakeRetain") :
          /\ ostate[c.p] = "unborn"
          /\ c.s.ostate[c.p] = "alive"
          /\ c.s.m_ptr[c.h] = c.p
          /\ c.s.count[c.p] = 1
          /\ UseCountOf(c.s, c.h) = 1
          /\ Dispatched(c.s) = {})
  /\ [][\A o \in Objects :
          (ostate[o] = "unborn" /\ ostate'[o] = "alive") => count'[o] = 1]_vars

\* an object made by make_retain is owned by one handle with use_count 1,
\* and make_retain can be called again for the next object
C18_Witness ==
  /\ \E h \in Handles :
       /\ m_ptr[h] # NULL /\ UseCountOf(Cur, h) = 1
       /\ Owners(m_ptr[h]) = {h} /\ Outside(m_ptr[h]) = 0
  /\ \E c \in CallsOf("MakeRetain") :
       c.s.m_ptr[c.h] = c.p /\ UseCountOf(c.s, c.h) = 1

\* C19 as stated: the count of an object that handles own is never
\* negative and never exceeds the number of live handles that store it.
C19_CountAtMostHandles ==
  \A o \in Objects :
    (ostate[o] = "alive" /\ Owners(o) # {})
      => count[o] >= 0 /\ count[o] <= Cardinality(Owners(o))

\* C19: no count is ever negative, and the count of a live object never
\* exceeds the number of live handles that store it plus the number of
\* references held outside handles (the one created with the object until
\* a handle adopts it, a pointer returned by release() until it is adopted
\* again or deleted).
C19_CountAtMostReferences ==
  \A o \in Objects :
    /\ count[o] >= 0
    /\ ostate[o] = "alive"
         => count[o] <= Cardinality(Owners(o)) + Outside(o)
    /\ (ostate[o] = "alive" /\ Outside(o) = 0 /\ Owners(o) # {})
         => count[o] <= Cardinality(Owners(o))

\* an object stored by one handle has count 2: a second handle released
\* its reference, which the caller now holds through the raw pointer
C19_Witness ==
  \E o \in Objects :
    /\ ostate[o] = "alive" /\ Cardinality(Owners(o)) = 1
    /\ raw[o] = 1 /\ ~fresh[o]
    /\ count[o] = 2

\* C20 as stated: when the traits' increment throws during the
\* construction of a handle with retain_object from a non-null p, p is not
\* left stored in any handle that did not store it before, p's count is
\* what it was before the call and no decrement is applied to p.
C20_ThrowingRetainHasNoEffect ==
  \A c \in ThrowingCalls :
    /\ \A g \in Handles : c.s.m_ptr[g] = m_ptr[g]
    /\ c.s.count[c.p] = count[c.p]
    /\ c.s.ostate[c.p] = ostate[c.p]
    /\ DecsOn(c.s, c.p) = {}

\* a fresh object with count 1 can be passed to the retaining constructor
\* whose increment throws: the call leaves it disposed, with count 0
C20_Witness ==
  \E c \in ThrowingCalls :
    /\ ostate[c.p] = "alive" /\ count[c.p] = 1
    /\ c.s.m_ptr[c.h] = NULL
    /\ Cardinality(DecsOn(c.s, c.p)) = 1
    /\ IncsOn(c.s, c.p) = {}
    /\ c.s.count[c.p] = 0 /\ c.s.ostate[c.p] = "disposed"

\* C21: the comparison operators compare the stored pointers only: for
\* all handles x, y of any types, x == y iff x.get() == y.get(), x != y is
\* its negation, exactly one of x < y, x == y, y < x holds, <=, > and >=
\* agree with <; x == nullptr iff x is Empty iff bool(x) is false, and
\* x != nullptr iff x is Owning.
C21_ComparePointersOnly ==
  \A a \in Addresses : \A x, y \in Handles :
    LET eq == Compare("==", a, Cur, x, y)
        lt == Compare("<", a, Cur, x, y)
        gt == Compare("<", a, Cur, y, x)
    IN /\ eq <=> m_ptr[x] = m_ptr[y]
       /\ Compare("!=", a, Cur, x, y) <=> ~eq
       /\ (lt \/ eq \/ gt) /\ ~(lt /\ eq) /\ ~(lt /\ gt) /\ ~(eq /\ gt)
       /\ Compare("<=", a, Cur, x, y) <=> (lt \/ eq)
       /\ Compare(">", a, Cur, x, y) <=> gt
       /\ Compare(">=", a, Cur, x, y) <=> (gt \/ eq)
       /\ CompareNull("==", a, Cur, x) <=> m_ptr[x] = NULL
       /\ CompareNull("==", a, Cur, x) <=> ~Bool(Cur, x)
       /\ CompareNull("!=", a, Cur, x) <=> m_ptr[x] # NULL
       /\ CompareNull("<=", a, Cur, x)
            <=> (CompareNull("<", a, Cur, x) \/ CompareNull("==", a, Cur, x))
       /\ CompareNull(">=", a, Cur, x)
            <=> (CompareNull(">", a, Cur, x) \/ CompareNull("==", a, Cur, x))

\* handles of different types store the same object and compare equal; a
\* third handle stores another object with the same count and compares
\* unequal to them
C21_Witness ==
  \E x, y, z \in Handles : \E a \in Addresses :
    /\ HType(x) # HType(y)
    /\ m_ptr[x] # NULL /\ m_ptr[y] = m_ptr[x]
    /\ m_ptr[z] # NULL /\ m_ptr[z] # m_ptr[x]
    /\ count[m_ptr[z]] = count[m_ptr[x]]
    /\ Compare("==", a, Cur, x, y) /\ ~Compare("==", a, Cur, x, z)
    /\ Compare("<", a, Cur, x, z) /\ CompareNull("!=", a, Cur, x)

\* C22: the hash of a handle is the hash of its stored pointer: an Empty
\* handle hashes like a null pointer, two handles to the same object have
\* equal hashes, and the hash does not depend on the object's count.
C22_HashOfStoredPointer ==
  \A f \in HashFns : \A h \in Handles :
    /\ HashOf(f, Cur, h) = f[m_ptr[h]]
    /\ m_ptr[h] = NULL => HashOf(f, Cur, h) = f[NULL]
    /\ \A g \in Handles :
         m_ptr[g] = m_ptr[h] => HashOf(f, Cur, g) = HashOf(f, Cur, h)
    /\ \A n \in 1 .. MaxCount :
         HashOf(f, [Cur EXCEPT !.count = [o \in Objects |-> n]], h)
           = HashOf(f, Cur, h)

\* two handles store one object whose count is 2, a third handle is Empty:
\* the two hash alike, the third like a null pointer
C22_Witness ==
  \E h, g, e \in Handles : \E f \in HashFns :
    /\ h # g /\ m_ptr[h] # NULL /\ m_ptr[g] = m_ptr[h] /\ m_ptr[e] = NULL
    /\ count[m_ptr[h]] = 2
    /\ f[m_ptr[h]] # f[NULL]
    /\ HashOf(f, Cur, h) = HashOf(f, Cur, g)
    /\ HashOf(f, Cur, e) = f[NULL]

\* C23: with the atomic mixin, when a thread's decrement has taken the
\* count to zero, every write to the object that any thread made while it
\* held a handle happens before that thread's delete of the object.
C23_DisposerSeesAllWrites ==
  \A t \in Threads :
    tpc[t] \in {"dlp_delete", "dp_delete", "reset_delete"}
      => /\ \A u \in Threads : u \in hb.known[u] => u \in hb.known[t]
         /\ \A u \in Threads : tptr[u].p = NULL /\ tptr[u].lp = NULL

\* a worker is about to delete the object, and the main thread and every
\* other worker wrote to it before they dropped their handles
C23_Witness ==
  \E t \in Workers :
    /\ tpc[t] = "dp_delete"
    /\ \A u \in Threads : u \in hb.known[u]
    /\ hb.known[t] = Threads

\* C24: no retain_ptr operation calls the traits' increment or decrement
\* with a null pointer, and an operation all of whose pointers are null
\* (an Empty handle, an Empty source, a null argument) calls neither; nor
\* does the unwinding of a retaining constructor whose increment threw.
C24_NoDispatchOnNull ==
  /\ \A op \in Ops : \A c \in CallsOf(op) :
       /\ \A i \in Dispatched(c.s) : c.s.ev[i].o # NULL
       /\ (m_ptr[c.h] = NULL /\ c.p = NULL) => Dispatched(c.s) = {}
  /\ \A c \in ThrowingCalls : \A i \in Dispatched(c.s) : c.s.ev[i].o # NULL

\* an Empty handle can be destroyed, reset and copied and null can be
\* retained while another handle is Owning, all without a traits call, and
\* the Empty handle can be assigned to the Owning one, which calls decrement
C24_Witness ==
  \E e, h \in Handles :
    /\ m_ptr[e] = NULL /\ m_ptr[h] # NULL /\ HType(e) = HType(h)
    /\ Dispatched(DestroyRes(e)) = {}
    /\ Dispatched(ResetRetainRes(e, NULL)) = {}
    /\ Dispatched(CopyAssignRes(e, e)) = {}
    /\ \E c \in CallsOf("CopyAssign") :
         /\ c.h = h /\ c.src = e /\ c.s.m_ptr[h] = NULL
         /\ Cardinality(Dispatched(c.s)) = 1
         /\ \A i \in Dispatched(c.s) : c.s.ev[i].o = m_ptr[h]

\* C25: in every reachable state no live handle stores a pointer to an
\* object that has been disposed, and no increment, decrement or use_count
\* has been applied to a disposed object.
C25_NoDanglingHandle ==
  /\ \A h \in Handles :
       m_ptr[h] # NULL
         => /\ ostate[m_ptr[h]] = "alive"
            /\ UseCountOf(Cur, h) >= 1
  /\ \A o \in Objects : ostate[o] \in {"disposed", "deleted"} => Owners(o) = {}
  /\ ub = FALSE

\* one object has been disposed through its handles and no handle stores it
\* any more, while two handles of different types share the other object
C25_Witness ==
  \E o, q \in Objects : \E h, g \in Handles :
    /\ ostate[o] = "disposed" /\ disposals[o] = 1 /\ Owners(o) = {}
    /\ ostate[q] = "alive" /\ HType(h) # HType(g)
    /\ m_ptr[h] = q /\ m_ptr[g] = q /\ count[q] = 2

\* C26 as stated: in every move assignment, same-type and converting, into
\* an Owning handle from a source that stores something else, the store of
\* the moved-from pointer into *this comes before the decrement of the old
\* target: no decrement of the old target is dispatched while *this still
\* stores it.
C26_MoveAssignStoresThenDecrements ==
  \A op \in {"MoveAssign", "ConvMoveAssign"} : \A c \in CallsOf(op) :
    (c.h # c.src /\ m_ptr[c.h] # NULL /\ c.p # m_ptr[c.h])
      => /\ c.s.m_ptr[c.h] = c.p
         /\ \A i \in DecsOn(c.s, m_ptr[c.h]) :
              \E j \in 1 .. (i - 1) :
                /\ c.s.ev[j].k = "store"
                /\ c.s.ev[j].h = c.h
                /\ c.s.ev[j].o = c.p

\* a Derived handle can be move-assigned to a Base handle that owns another
\* object: the first thing the converting operator does is the decrement of
\* that object, which disposes it, and only then *this is stored to
C26_Witness ==
  \E c \in CallsOf("ConvMoveAssign") :
    /\ m_ptr[c.h] # NULL /\ c.p # NULL /\ c.p # m_ptr[c.h]
    /\ count[m_ptr[c.h]] = 1
    /\ c.s.ev[1].k = "dec" /\ c.s.ev[1].o = m_ptr[c.h] /\ c.s.ev[1].del
    /\ c.s.ev[Len(c.s.ev)].k = "store" /\ c.s.ev[Len(c.s.ev)].h = c.h
    /\ c.s.m_ptr[c.h] = c.p /\ c.s.m_ptr[c.src] = NULL

\* C27 as stated: every converting copy from retain_ptr<U, UTraits> into
\* retain_ptr<T, Traits>, by construction and by assignment, increments the
\* new target through the source's dispatcher UTraits and never through
\* Traits, and decrements the destination's old target through Traits.
C27_ConvertingCopyUsesSourceTraits ==
  \A op \in {"ConvCopyConstruct", "ConvCopyAssign"} : \A c \in CallsOf(op) :
    \A i \in Dispatched(c.s) :
      /\ c.s.ev[i].k = "inc" => c.s.ev[i].tr = HType(c.src)
      /\ c.s.ev[i].k = "dec" => c.s.ev[i].tr = HType(c.h)

\* an Owning Derived handle can be copy-assigned to a Base handle: the
\* increment of its object is dispatched through the traits of Base, while
\* the converting copy constructor dispatches it through those of Derived
C27_Witness ==
  /\ \E c \in CallsOf("ConvCopyAssign") :
       /\ c.p # NULL /\ HType(c.src) = "Derived" /\ HType(c.h) = "Base"
       /\ Cardinality(IncsOn(c.s, c.p)) = 1
       /\ \A i \in IncsOn(c.s, c.p) : c.s.ev[i].tr = "Base"
  /\ \E c \in CallsOf("ConvCopyConstruct") :
       /\ c.p # NULL /\ HType(c.src) = "Derived" /\ HType(c.h) = "Base"
       /\ \A i \in IncsOn(c.s, c.p) : c.s.ev[i].tr = "Derived"

\* C28 as stated: a static, const, reinterpret or succeeding dynamic cast
\* of an Owning rvalue gives a handle to the same object, leaves its count
\* unchanged and the source Empty, and calls no traits function, whether
\* the target traits declare default_action as adopt_object_t, as
\* retain_object_t, or not at all.
C28_MoveCastAdopts ==
  \A action \in {"adopt", "retain"} : \A kind \in CastKinds :
    \A h, other \in Handles :
      (/\ CastMovePre(kind, h, other)
       /\ m_ptr[other] # NULL
       /\ CastPtr(kind, HType(h), m_ptr[other]) # NULL)
        => LET r == CastMoveAs(action, Cur, kind, h, HType(h), other)
           IN /\ r.m_ptr[h] = m_ptr[other]
              /\ r.m_ptr[other] = NULL
              /\ r.count = count
              /\ Dispatched(r) = {}

\* the sole handle of an object can be cast as an rvalue: with traits whose
\* default_action is retain_object_t the result is the only handle and the
\* count is 2; with retain_traits it stays 1
C28_Witness ==
  \E h, other \in Handles :
    /\ CastMovePre("static", h, other)
    /\ m_ptr[other] # NULL /\ Owners(m_ptr[other]) = {other}
    /\ count[m_ptr[other]] = 1 /\ Outside(m_ptr[other]) = 0
    /\ LET r == CastMoveAs("retain", Cur, "static", h, HType(h), other)
       IN /\ r.m_ptr[h] = m_ptr[other] /\ r.m_ptr[other] = NULL
          /\ r.count[m_ptr[other]] = 2
          /\ Cardinality(IncsOn(r, m_ptr[other])) = 1
    /\ CastMoveRes("static", h, other).count[m_ptr[other]] = 1

\* C29: copy, move and converting assignment into an Owning handle from a
\* handle that owns a different object decrement the previous target
\* exactly once, which disposes it iff that was its last reference; after
\* a move form the new target's count is unchanged and the source is
\* Empty, after a copy form the new target's count is one higher and the
\* source still owns it.
C29_AssignDropsOldTargetOnce ==
  \A op \in {"CopyAssign", "ConvCopyAssign", "MoveAssign", "ConvMoveAssign"} :
    \A c \in CallsOf(op) :
      LET old == m_ptr[c.h]
          copies == op \in {"CopyAssign", "ConvCopyAssign"}
      IN (old # NULL /\ c.p # NULL /\ c.p # old)
           => /\ c.s.m_ptr[c.h] = c.p
              /\ Cardinality(DecsOn(c.s, old)) = 1
              /\ c.s.count[old] = count[old] - 1
              /\ c.s.ostate[old] = IF count[old] = 1 THEN "disposed" ELSE "alive"
              /\ c.s.disposals[old] = IF count[old] = 1 THEN 1 ELSE 0
              /\ DecsOn(c.s, c.p) = {}
              /\ c.s.ostate[c.p] = "alive"
              /\ copies => /\ c.s.count[c.p] = count[c.p] + 1
                           /\ Cardinality(IncsOn(c.s, c.p)) = 1
                           /\ c.s.m_ptr[c.src] = c.p
              /\ ~copies => /\ c.s.count[c.p] = count[c.p]
                            /\ IncsOn(c.s, c.p) = {}
                            /\ c.s.m_ptr[c.src] = NULL

\* a Base handle is the last owner of one object; a Base handle and a
\* Derived handle own the other: each of the four assignments into the
\* first handle is enabled and disposes its object
C29_Witness ==
  \A op \in {"CopyAssign", "ConvCopyAssign", "MoveAssign", "ConvMoveAssign"} :
    \E c \in CallsOf(op) :
      /\ m_ptr[c.h] # NULL /\ c.p # NULL /\ c.p # m_ptr[c.h]
      /\ count[m_ptr[c.h]] = 1 /\ count[c.p] = 2
      /\ c.s.ostate[m_ptr[c.h]] = "disposed"
      /\ c.s.m_ptr[c.h] = c.p

\* the positions in a handler's event list of the stores of p into handle h
StoresOf(s, h, p) ==
  {i \in 1 .. Len(s.ev) : s.ev[i].k = "store" /\ s.ev[i].h = h /\ s.ev[i].o = p}

C32_MoveAssignAliasedDropsOne ==
  \A op \in {"MoveAssign", "ConvMoveAssign"} :
    \A c \in CallsOf(op) :
      (c.src # c.h /\ c.p # NULL /\ m_ptr[c.h] = c.p)
        => /\ c.s.count[c.p] = count[c.p] - 1
           /\ Cardinality(DecsOn(c.s, c.p)) = 1
           /\ IncsOn(c.s, c.p) = {}
           /\ Cardinality(Dispatched(c.s)) = 1
           /\ c.s.m_ptr[c.h] = c.p
           /\ c.s.m_ptr[c.src] = NULL
           /\ c.s.ostate[c.p] = "alive" /\ c.s.disposals[c.p] = 0
           /\ c.s.count[c.p] >= 1
           /\ c.s.ub = ub

\* two base handles and a derived handle are the three owners of an object
\* (count 3): the move assignment between the base handles and the one from
\* the derived to a base handle each leave the count at 2
C32_Witness ==
  \A op \in {"MoveAssign", "ConvMoveAssign"} :
    \E c \in CallsOf(op) :
      /\ c.src # c.h /\ c.p # NULL /\ m_ptr[c.h] = c.p
      /\ count[c.p] = 3 /\ Cardinality(Owners(c.p)) = 3
      /\ c.s.count[c.p] = 2 /\ c.s.ostate[c.p] = "alive"
      /\ c.s.m_ptr[c.h] = c.p /\ c.s.m_ptr[c.src] = NULL

\* C33: run side by side on the same sequence of operations, the plain and
\* the atomic mixin agree after every step: every handle stores the same
\* pointer and reports the same use_count(), every object has the same
\* count and has been disposed in both runs or in neither; and every call
\* makes the same dispatcher calls in both runs, each decrement deleting in
\* both or in neither.
C33_PlainAtomicEquivalent ==
  /\ twin.st = OtherMixin(storage)
  /\ twin.m_ptr = m_ptr /\ twin.count = count
  /\ twin.ostate = ostate /\ twin.disposals = disposals /\ twin.ub = ub
  /\ \A h \in Handles : UseCountOf(twin, h) = UseCountOf(Cur, h)
  /\ twin.agree
  /\ \A c \in 0 .. MaxCount + 1 :
       /\ c >= 1 => (DecrementDisposes("plain", c)
                       <=> DecrementDisposes("atomic", c))
       /\ IncrementValue("plain", c) = IncrementValue("atomic", c)

\* in both runs one object has been disposed by a decrement and another is
\* alive with count 2, one of whose owners is about to be destroyed
C33_Witness ==
  /\ \E o \in Objects :
       /\ ostate[o] = "disposed" /\ twin.ostate[o] = "disposed"
       /\ disposals[o] = 1 /\ twin.disposals[o] = 1
  /\ \E o \in Objects, h \in Handles :
       /\ m_ptr[h] = o /\ twin.m_ptr[h] = o
       /\ UseCountOf(Cur, h) = 2 /\ UseCountOf(twin, h) = 2
  /\ \E c \in CallsOf("Destroy") :
       /\ c.p # NULL /\ count[c.p] = 2
       /\ c.s.ostate[c.p] = "alive" /\ c.s.count[c.p] = 1
       /\ Apply("Destroy", twin, c.h, c.src, c.p).ostate[c.p] = "alive"
       /\ Apply("Destroy", twin, c.h, c.src, c.p).count[c.p] = 1
  /\ twin.st # storage

\* C34: with the plain mixin, when the loads and stores of several threads'
\* increments and decrements of one count interleave, the count of an
\* object differs from the number of handles that own it only after a
\* store has wiped out another thread's update; an object is disposed
\* while handles still own it, or is left alive when none owns it any
\* more, only after such a lost update.
C34_PlainCountLosesUpdates ==
  \A o \in RaceObjs :
    /\ (Quiescent /\ ~rlog[o]) => count[o] = RaceOwners(o)
    /\ (ostate[o] = "disposed" /\ RaceOwners(o) >= 1) => rlog[o]
    /\ (Quiescent /\ ostate[o] = "alive" /\ RaceOwners(o) = 0) => rlog[o]
    /\ disposals[o] >= 2 => rlog[o]

\* two copies have raced on the first object and two destructions on the
\* second: the first object has been disposed while a worker still holds
\* a handle to it, the second is alive with count 1 and no handle is left
\* to decrement it
C34_Witness ==
  /\ Quiescent
  /\ ostate[TObj] = "disposed" /\ RaceOwners(TObj) >= 1
  /\ count[TObj] # RaceOwners(TObj)
  /\ ostate[TObj + 1] = "alive" /\ RaceOwners(TObj + 1) = 0
  /\ count[TObj + 1] >= 1

\* C35: also with the atomic mixin, one handle used by several threads is
\* safe only while their operations on it do not overlap: then the object
\* is decremented at most once for the handle's one reference and never
\* incremented after its disposal.  The atomic count itself never loses an
\* update (it is 1 plus the increments minus the decrements), so what goes
\* wrong when operations overlap is the unsynchronised stored pointer: an
\* increment of an object already disposed, or more decrements than there
\* are references, is a use of a disposed object.
C35_SharedHandleNeedsExclusion ==
  \A o \in RaceObjs :
    /\ count[o] = InitialCount(storage) + rlog[o].incs - rlog[o].decs
    /\ ~rlog[o].overlap
         => /\ rlog[o].decs <= 1
            /\ ~rlog[o].late
            /\ disposals[o] <= 1
            /\ rlog[o].decs = 1 => m_ptr[SharedOf(o)] = NULL
    /\ rlog[o].late => ub
    /\ rlog[o].decs > 1 + rlog[o].incs => ub

\* two resets of the first handle overlapped and its object, owned once,
\* has been decremented twice; a reset and a copy of the second handle
\* overlapped and its object has been incremented after its disposal
C35_Witness ==
  /\ storage = "atomic"
  /\ \A t \in Workers : rpc[t].op > Len(SharedProgram(t))
  /\ rlog[TObj].decs = 2 /\ rlog[TObj].incs = 0 /\ count[TObj] = -1
  /\ ostate[TObj] = "disposed"
  /\ rlog[TObj + 1].late /\ ostate[TObj + 1] = "disposed"
  /\ rlog[TObj + 1].incs = 1

\* C36: while the reference that new created is still held through a raw
\* pointer (no handle has adopted it), the object is double-counted: the
\* retaining constructor takes a fresh object from count 1 to count 2 with
\* one handle, the count is always one more than the references of the
\* handles and of release(), so it is 1 when no handle is left, and no
\* retain_ptr operation disposes the object: only the caller's delete
\* ends its life.
C36_RetainedFreshObjectOutlivesHandles ==
  /\ [](\A o \in Objects :
          fresh[o]
            => /\ ostate[o] = "alive" /\ disposals[o] = 0
               /\ count[o] = Cardinality(Owners(o)) + raw[o] + 1
               /\ (Owners(o) = {} /\ raw[o] = 0) => count[o] = 1)
  /\ [](\A c \in CallsOf("ConstructRetain") :
          (c.p # NULL /\ fresh[c.p] /\ Owners(c.p) = {} /\ raw[c.p] = 0)
            => /\ count[c.p] = 1
               /\ c.s.count[c.p] = 2
               /\ {h \in Handles : c.s.m_ptr[h] = c.p} = {c.h})
  /\ [][\A o \in Objects :
          (fresh[o] /\ ostate'[o] # "alive")
            => (ostate'[o] = "deleted" /\ m_ptr' = m_ptr /\ count' = count)]_vars

\* one fresh object is owned by a single handle at count 2, and destroying
\* that handle leaves it alive at count 1; another fresh object has no
\* handle and count 1, and can be retained
C36_Witness ==
  /\ \E c \in CallsOf("Destroy") :
       /\ c.p # NULL /\ fresh[c.p] /\ Owners(c.p) = {c.h} /\ raw[c.p] = 0
       /\ count[c.p] = 2
       /\ c.s.count[c.p] = 1 /\ c.s.ostate[c.p] = "alive"
       /\ \A h \in Handles : c.s.m_ptr[h] # c.p
  /\ \E c \in CallsOf("ConstructRetain") :
       /\ c.p # NULL /\ fresh[c.p] /\ Owners(c.p) = {} /\ count[c.p] = 1
       /\ c.s.count[c.p] = 2

\* C37: for traits without a use_count function, use_count() is -1 for
\* every handle in every state, Empty or Owning: the sentinel takes
\* precedence over the 0 of a null handle.  For traits with a use_count
\* function it is the value modelled so far.
C37_UseCountUnsupportedIsMinusOne ==
  \A h \in Handles :
    /\ UseCountWith(FALSE, Cur, h) = -1
    /\ UseCountWith(TRUE, Cur, h) = UseCountOf(Cur, h)
    /\ UseCountWith(TRUE, Cur, h) >= 0

\* an Empty handle, and an Owning handle whose object has count 2: traits
\* with use_count report 0 and 2, traits without report -1 for both
C37_Witness ==
  \E e, h \in Handles :
    /\ m_ptr[e] = NULL /\ m_ptr[h] # NULL /\ count[m_ptr[h]] = 2
    /\ UseCountWith(TRUE, Cur, e) = 0 /\ UseCountWith(TRUE, Cur, h) = 2
    /\ UseCountWith(FALSE, Cur, e) = -1 /\ UseCountWith(FALSE, Cur, h) = -1

\* C38: construction from a bare pointer and reset(p) do exactly what the
\* adopt forms do when the traits declare default_action as adopt_object_t
\* or declare none, and exactly what the retain forms do when they declare
\* retain_object_t; with retain_traits, whose default_action is
\* adopt_object_t, a bare-pointer construction calls no traits function
\* and changes no count.
C38_BarePointerFollowsDefaultAction ==
  /\ DetectedOrAdopt(DefaultAction) = "adopt"
  /\ \A c \in CallsOf("ConstructAdopt") :
       /\ \A decl \in Declared \ {"retain"} :
            CtorBareAs(DetectedOrAdopt(decl), Cur, c.h, HType(c.h), c.p) = c.s
       /\ CtorBare(Cur, c.h, HType(c.h), c.p) = c.s
       /\ c.s.count = count /\ Dispatched(c.s) = {}
  /\ \A c \in CallsOf("ConstructRetain") :
       CtorBareAs(DetectedOrAdopt("retain"), Cur, c.h, HType(c.h), c.p) = c.s
  /\ \A c \in CallsOf("ResetAdopt") :
       \A decl \in Declared \ {"retain"} :
         ResetBareAs(DetectedOrAdopt(decl), Cur, c.h, HType(c.h), c.p) = c.s
  /\ \A c \in CallsOf("ResetRetain") :
       ResetBareAs(DetectedOrAdopt("retain"), Cur, c.h, HType(c.h), c.p) = c.s

\* a live object at count 1 that the caller may hand over: the bare-pointer
\* constructor leaves its count at 1 with adopting or no default_action
\* and raises it to 2 with a retaining one, and reset(p) on a handle that
\* owns another object does the same
C38_Witness ==
  /\ \E c \in CallsOf("ConstructAdopt") :
       /\ c.p # NULL /\ count[c.p] = 1
       /\ CtorBareAs(DetectedOrAdopt("none"), Cur, c.h, HType(c.h), c.p)
            .count[c.p] = 1
       /\ CtorBareAs(DetectedOrAdopt("retain"), Cur, c.h, HType(c.h), c.p)
            .count[c.p] = 2
  /\ \E c \in CallsOf("ResetAdopt") :
       /\ c.p # NULL /\ count[c.p] = 1
       /\ m_ptr[c.h] # NULL /\ m_ptr[c.h] # c.p
       /\ ResetBareAs(DetectedOrAdopt("none"), Cur, c.h, HType(c.h), c.p)
            .count[c.p] = 1
       /\ ResetBareAs(DetectedOrAdopt("retain"), Cur, c.h, HType(c.h), c.p)
            .count[c.p] = 2

\* C39: for every two integer types From and To and every value v of From,
\* clamp_cast<To>(v) is v when To can represent v, the maximum of To when
\* v is above To's range and the minimum of To (0 when To is unsigned) when
\* v is below it: the result is always a value of To and never wrapped.
C39_ClampCastSaturates ==
  cc.done
    => /\ cc.res \in ValuesOf(cc.to)
       /\ cc.v \in ValuesOf(cc.to) => cc.res = cc.v
       /\ cc.v > NumericMax(cc.to) => cc.res = NumericMax(cc.to)
       /\ cc.v < NumericLowest(cc.to) => cc.res = NumericLowest(cc.to)
       /\ (cc.v < 0 /\ ~cc.to.sgn) => cc.res = 0

\* a call has clamped a value above the range of a narrower type to that
\* type's maximum, where a plain static_cast would have wrapped; the same
\* holds at the lower end, for a signed and for an unsigned target
C39_Witness ==
  /\ cc.done
  /\ cc.v > NumericMax(cc.to) /\ cc.res = NumericMax(cc.to)
  /\ StaticCast(cc.to, cc.v) # cc.res
  /\ \E From \in IntTypes, To \in IntTypes : \E v \in ValuesOf(From) :
       /\ To.sgn /\ v < NumericLowest(To)
       /\ StaticCast(To, v) # NumericLowest(To)
       /\ ClampCast(To, From, v) = NumericLowest(To)
  /\ \E From \in IntTypes, To \in IntTypes : \E v \in ValuesOf(From) :
       /\ ~To.sgn /\ v < 0 /\ StaticCast(To, v) # 0
       /\ ClampCast(To, From, v) = 0
====
